---- MODULE Spec2Model ----
(***************************************************************************)
(* A model of the lumo agent runtime: the step loop of the Agent trait     *)
(* (agent_trait.rs), the planner of MultiStepAgent (multistep_agent.rs),   *)
(* the step of the function-calling, code and MCP agents, and the way the  *)
(* three model backends turn a provider response into ToolCall values.     *)
(*                                                                         *)
(* Option<T> is a sequence of length at most one: <<>> is None, <<x>> is   *)
(* Some(x).  A text is a record [src, of, len]: where it came from, the    *)
(* index of the tool call it answers (0 when it answers none) and its      *)
(* length in characters.                                                   *)
(***************************************************************************)
EXTENDS Integers, Sequences, FiniteSets, TLC

\* ---------------------------------------------------------------- bounds
MaxSteps == 3
MaxRuns == 2
MaxInterval == 2
MaxKept == 3
MaxCalls == 2
MaxClients == 2
MaxChunks == 3
ChanCap == 2
TokCap == 1
MaxDepth == 2
MaxTokens == 2
RxCap == 1
MaxDeltas == 3

\* ------------------------------------------------------ program constants
\* the 30000 character limit of the observation text
ObsLimit == 30000
\* length of " \n....This content has been truncated due to the 30000 character limit....."
NoticeLen == 75
\* length of "Observation from " ++ ": ", the name excluded
McpPrefixLen == 19
\* length of "Final answer: "
FinalPrefixLen == 14
\* length of "Error from " ++ ": ", the name excluded
McpErrPrefixLen == 13
\* lengths of "Execution logs: ", "\nResult: ", "Result: " and
\* "No output or logs generated"
ExecLogsPrefixLen == 16
ResultSepLen == 9
ResultPrefixLen == 8
NoOutputLen == 27

None == <<>>
Some(x) == <<x>>
IsSome(o) == Len(o) = 1
IsNone(o) == Len(o) = 0
Unwrap(o) == o[1]

Text(src, of, len) == [src |-> src, of |-> of, len |-> len]
NoText == Text("none", 0, 0)

Variants == {"function_calling", "code", "mcp"}
Backends == {"openai", "ollama", "gemini"}

\* ------------------------------------------------------------ log entries
\* Step::SystemPromptStep(text); the prompt is rendered once, at construction
SystemPromptStep == [kind |-> "SystemPromptStep", step |-> 0, task |-> None,
                     llm_output |-> None, tool_call |-> None, observations |-> None,
                     final_answer |-> None, error |-> None, facts |-> "", plan |-> ""]
\* Step::TaskStep(task)
TaskStep(t) == [SystemPromptStep EXCEPT !.kind = "TaskStep", !.task = Some(t)]
\* Step::PlanningStep(facts, plan), stored in this order by planning_step
PlanningStep(f, p) == [SystemPromptStep EXCEPT !.kind = "PlanningStep", !.facts = f, !.plan = p]
\* AgentStep::new(step, task) wrapped in Step::ActionStep: every other field None
AgentStepNew(n, t) == [SystemPromptStep EXCEPT !.kind = "ActionStep", !.step = n, !.task = t]

\* the draft slot when no iteration holds one
NoDraft == [SystemPromptStep EXCEPT !.kind = "none"]

IsAction(s) == s.kind = "ActionStep"
IsTask(s) == s.kind = "TaskStep"
IsPlanning(s) == s.kind = "PlanningStep"

\* ------------------------------------------------- the memory assembler
\* a message of the model's input: its role, the log entry it was made from,
\* the id it answers and the tool calls attached to it
Message(role, entry, id, calls) ==
    [role |-> role, entry |-> entry, tool_call_id |-> id, tool_calls |-> calls]

\* the id a ToolResponse carries: the id of the call unless absent or empty
ToolResponseId(c) == IF IsSome(c.id) /\ c.id # Some("") THEN c.id ELSE None

\* observations[i] is read for every tool call i: a step that stores fewer
\* observations than calls makes the read go out of bounds
ObservationMissing(st) ==
    /\ IsAction(st) /\ IsSome(st.tool_call) /\ IsSome(st.observations)
    /\ Len(Unwrap(st.observations)) < Len(Unwrap(st.tool_call))

\* write_inner_memory_from_logs panics on such a step
MemoryPanics(l) == \E i \in 1..Len(l) : ObservationMissing(l[i])

\* the messages of an ActionStep: the assistant's message (never in summary
\* mode), one ToolResponse per tool call or one message of observations, and
\* the error
ActionMessages(st, i, summary_mode) ==
    (IF IsSome(st.llm_output) /\ ~summary_mode
     THEN <<Message("Assistant", i, None, st.tool_call)>> ELSE <<>>)
    \o (IF IsSome(st.tool_call) /\ IsSome(st.observations)
        THEN [k \in 1..Len(Unwrap(st.tool_call)) |->
                 Message("ToolResponse", i, ToolResponseId(Unwrap(st.tool_call)[k]), None)]
        ELSE IF IsSome(st.observations) THEN <<Message("User", i, None, None)>> ELSE <<>>)
    \o (IF IsSome(st.error) THEN <<Message("User", i, None, None)>> ELSE <<>>)

\* the messages of one log entry
EntryMessages(st, i, summary_mode) ==
    CASE st.kind = "SystemPromptStep" -> <<Message("System", i, None, None)>>
      [] IsTask(st) -> <<Message("User", i, None, None)>>
      [] IsPlanning(st) ->
           (IF summary_mode THEN <<>> ELSE <<Message("Assistant", i, None, None)>>)
           \o <<Message("Assistant", i, None, None)>>
      [] IsAction(st) -> ActionMessages(st, i, summary_mode)
      [] OTHER -> <<>>

\* write_inner_memory_from_logs on a log it does not panic on: the messages
\* of the first n entries, in the order of the log
RECURSIVE WriteInnerMemoryUpTo(_, _, _)
WriteInnerMemoryUpTo(l, n, summary_mode) ==
    IF n = 0 THEN <<>>
    ELSE WriteInnerMemoryUpTo(l, n - 1, summary_mode) \o EntryMessages(l[n], n, summary_mode)
WriteInnerMemory(l, summary_mode) == WriteInnerMemoryUpTo(l, Len(l), summary_mode)

VARIABLES
    variant,            \* which agent implements step
    backend,            \* which model backend answers
    max_steps,          \* MultiStepAgent.max_steps
    planning_interval,  \* MultiStepAgent.planning_interval: Option<usize>
    managed,            \* whether the agent has the managed sub-agent "research"
    logs,               \* MultiStepAgent.logs
    step_number,        \* MultiStepAgent.step_number
    task,               \* MultiStepAgent.task
    reset,              \* the reset argument of the current run
    driver,             \* which entry point drives the loop: run or stream_run
    yielded,            \* the items the stream of stream_run has yielded
    inputs,             \* what the planner, the steps and the recovery returned to this run
    prev,               \* the run before this one, as the caller remembers it
    pc,                 \* where the run is suspended
    final_answer,       \* the local final_answer of direct_run
    step_log,           \* the draft ActionStep of the current iteration
    tools,              \* the tool calls the current step dispatches
    futures,            \* per dispatched call: "idle", "pending" or its result
    observations,       \* the local observations of step
    cursor,             \* position of step in its serial work
    ret,                \* what run returned: [status, val]
    nruns,              \* runs started on this agent
    ncalls,             \* model calls made by the current run
    model_err,          \* whether the latest model call failed
    response,           \* the response of the model to the step in hand
    interp,             \* the outcome of the sandbox in the step in hand
    feed,               \* the chunks the provider has still to send
    received,           \* the chunks the forwarder got from the provider
    stream,             \* the channel from the forwarder: [open, queue]
    accumulation,       \* the channel between the two tasks: [tx, rx, queue]
    broadcast_task,     \* the broadcasting task: [pc, res, first_content, told]
    accumulation_task,  \* the accumulation task: [pc, accumulated_content]
    tx,                 \* the token channel: [receivers, ring, lagged, seen]
    stream_response,    \* what process_stream_with_separate_tasks returned
    original,           \* the ToolCall handed to the serializer: Option<ToolCall>
    wire,               \* its JSON document: Option
    restored,           \* the ToolCall read back from the document: Option<ToolCall>
    environ,            \* the environment of the server: ENABLE_AUTH, LUMO_API_KEY
    request,            \* the request the server is answering: Option
    called,             \* whether the middleware called the service it wraps
    reply,              \* the answer to the request: Option
    offered,            \* the items the agent's step stream yields when drained
    step_stream,        \* the items of the step stream not yet taken
    rx,                 \* the token receiver of the server: [queue, lagged, closed, sent]
    sse,                \* the events of the SSE response so far
    bridge,             \* where create_agent_stream is suspended
    deltas,             \* the tool-call deltas of a streamed response, in order
    taken,              \* how many of them the accumulation task has read
    tool_calls,         \* the local tool_calls of the accumulation task
    current_tool_call,  \* its local current_tool_call: Option<ToolCall>
    current_arguments,  \* its local current_arguments: the fragments pushed
    aggregation         \* the accumulation task: "loop", "done" or "panicked"

\* the streamed model call of the OpenAI backend
streaming == <<feed, received, stream, accumulation, broadcast_task, accumulation_task, tx,
               stream_response>>
\* what a run of the agent never writes: the builder's arguments and the
\* other components
\* the round trip of a tool call through serde
serde == <<original, wire, restored>>
\* the server behind its API-key middleware
gate == <<environ, request, called, reply>>
\* the SSE response of the server's /stream route
bridging == <<offered, step_stream, rx, sse, bridge>>
\* the aggregation of the tool-call deltas of a streamed response
aggregating == <<deltas, taken, tool_calls, current_tool_call, current_arguments, aggregation>>
config == <<variant, backend, max_steps, planning_interval, managed, streaming, serde, gate,
            bridging, aggregating>>
agent == <<logs, step_number, task>>
frame == <<pc, final_answer, step_log, ret, reset, driver, yielded, inputs>>
dispatch == <<tools, futures, observations, cursor>>
heard == <<model_err, response, interp>>
vars == <<config, agent, frame, dispatch, nruns, prev, ncalls, heard>>

NoRet == [status |-> "none", val |-> NoText]
Ok(x) == [status |-> "Ok", val |-> x]
Err == [status |-> "Err", val |-> NoText]

\* "Max steps reached without final answer"
MaxStepsText == Text("max_steps_text", 0, 38)

\* no response of the model yet, no outcome of the sandbox yet
NoResponse == [body |-> "none", len |-> 0, calls |-> 0]
NoOutcome == [kind |-> "none", elogs |-> 0, result |-> 0]

\* no run before this one
NoRun == [driver |-> "none", inputs |-> <<>>, logs |-> <<>>, ret |-> NoRet, yielded |-> <<>>]

\* a streamed call set up by run_stream for the chunks cs of the provider and
\* n subscribers of the token channel: two empty channels, two tasks spawned
StreamCall(cs, n) ==
    /\ feed = cs
    /\ received = <<>>
    /\ stream = [open |-> TRUE, queue |-> <<>>]
    /\ accumulation = [tx |-> TRUE, rx |-> TRUE, queue |-> <<>>]
    /\ broadcast_task = [pc |-> "recv", res |-> None, first_content |-> TRUE, told |-> <<>>]
    /\ accumulation_task = [pc |-> "recv", accumulated_content |-> <<>>]
    /\ tx = [receivers |-> n, ring |-> <<>>, lagged |-> FALSE, seen |-> <<>>]
    /\ stream_response = None
\* no streamed call is made
StreamIdle == StreamCall(<<>>, 0)
\* no tool call is serialized
SerdeIdle == original = None /\ wire = None /\ restored = None
\* the environment e of the server and no request
Listening(e) == environ = e /\ request = None /\ called = FALSE /\ reply = None
\* no server is run
GateIdle == Listening([ENABLE_AUTH |-> None, LUMO_API_KEY |-> None])
\* the components the agent runs beside
\* create_agent_stream before its first poll, for the step stream items
Bridging(items) ==
    /\ offered = items /\ step_stream = items
    /\ rx = [queue |-> <<>>, lagged |-> FALSE, closed |-> FALSE, sent |-> 0]
    /\ sse = <<>>
    /\ bridge = "open"
\* no SSE response is made
BridgeIdle == Bridging(<<>>)
\* the accumulation task as it is spawned, for the deltas ds
Aggregating(ds) ==
    /\ deltas = ds /\ taken = 0
    /\ tool_calls = <<>> /\ current_tool_call = None /\ current_arguments = <<>>
    /\ aggregation = "loop"
\* no response is aggregated
AggregateIdle == Aggregating(<<>>)
Idle == StreamIdle /\ SerdeIdle /\ GateIdle /\ BridgeIdle /\ AggregateIdle

Intervals == {None} \cup {Some(k) : k \in 1..MaxInterval}

\* the agent as its builder leaves it (MultiStepAgent::new): an empty log,
\* step_number 0, an empty task; the configuration is the builder's arguments
Construct(vs, bs, ms, ps, gs) ==
    /\ variant \in vs
    /\ backend \in bs
    /\ max_steps \in ms
    /\ planning_interval \in ps
    /\ managed \in gs
    /\ logs = <<>>
    /\ step_number = 0
    /\ task = ""
    /\ reset = FALSE
    /\ driver = "run"
    /\ yielded = <<>>
    /\ inputs = <<>>
    /\ prev = NoRun
    /\ pc = "idle"
    /\ final_answer = None
    /\ step_log = NoDraft
    /\ tools = <<>>
    /\ futures = <<>>
    /\ observations = <<>>
    /\ cursor = 0
    /\ ret = NoRet
    /\ nruns = 0
    /\ ncalls = 0
    /\ model_err = FALSE
    /\ response = NoResponse
    /\ interp = NoOutcome

Init == Construct(Variants, {"openai"}, 0..MaxSteps, Intervals, {TRUE}) /\ Idle

\* ------------------------------------------------------------------- run
\* a run that keeps the log whatever reset says (a variant the code is not)
RunLogsKeeping(l, t, r) ==
    Append(IF l = <<>> THEN <<SystemPromptStep>> ELSE [l EXCEPT ![1] = SystemPromptStep], TaskStep(t))
\* a run that records its task twice (a variant the code is not)
RunLogsTwice(l, t, r) ==
    LET head == IF r \/ l = <<>> THEN <<SystemPromptStep>>
                ELSE [l EXCEPT ![1] = SystemPromptStep]
    IN Append(Append(head, TaskStep(t)), TaskStep(t))
\* the log as run leaves it before direct_run
RunLogs(l, t, r) ==
    LET head == IF r \/ l = <<>> THEN <<SystemPromptStep>>
                ELSE [l EXCEPT ![1] = SystemPromptStep]
    IN Append(head, TaskStep(t))

\* set_step_number(1), the last write to step_number before direct_run
RunStepNumber == 1

\* the task of the n-th run
TaskOf(n) == IF n = 1 THEN "t1" ELSE "t2"

\* run(task, reset) up to the first test of the loop of direct_run;
\* stream_run(task, reset) up to the first test of the loop of its stream
Start(d, t, r) ==
    /\ pc = "idle"
    /\ driver' = d
    /\ yielded' = <<>>
    /\ inputs' = <<>>
    /\ logs' = RunLogs(logs, t, r)
    /\ task' = t
    /\ reset' = r
    /\ step_number' = RunStepNumber
    /\ final_answer' = None
    /\ ret' = NoRet
    /\ pc' = "loop"
    /\ nruns' = nruns + 1
    /\ ncalls' = 0
    /\ response' = NoResponse
    /\ interp' = NoOutcome
    /\ UNCHANGED <<config, step_log, dispatch, model_err>>

Run(t, r) == Start("run", t, r)
StreamRun(t, r) == Start("stream", t, r)

\* what the stream yields: a step, or an error
YieldOk(st) == [status |-> "Ok", step |-> st]
YieldErr == [status |-> "Err", step |-> NoDraft]
\* the stream is exhausted
StreamEnd == [status |-> "End", val |-> NoText]

\* a loop that goes on whatever the step answered (a variant the code is not)
LoopGuardIgnoringAnswer(fa, n, m) == n < m
\* the guard of the while loop of direct_run
LoopGuard(fa, n, m) == IsNone(fa) /\ n < m
\* a recovery prompt only past max_steps (a variant the code is not)
RecoverGuardPast(fa, n, m) == IsNone(fa) /\ n > m
\* the guard of the recovery prompt after the loop
RecoverGuard(fa, n, m) == IsNone(fa) /\ n >= m
\* step_number % planning_interval == 1
PlanningDue(n, pi) == IsSome(pi) /\ n % Unwrap(pi) = 1

\* one test of the loop of direct_run, up to the next suspension
LoopHead ==
    /\ pc = "loop"
    /\ IF LoopGuard(final_answer, step_number, max_steps)
       THEN /\ step_log' = AgentStepNew(step_number, Some(task))
            /\ pc' = IF PlanningDue(step_number, planning_interval) /\ step_number = 1
                     THEN "plan_facts" ELSE "model"
            /\ ret' = ret
            /\ response' = NoResponse
            /\ interp' = NoOutcome
       ELSE /\ step_log' = step_log
            /\ UNCHANGED <<response, interp>>
            /\ IF RecoverGuard(final_answer, step_number, max_steps)
               THEN pc' = "recover" /\ ret' = ret
               ELSE pc' = "idle" /\
                    ret' = IF driver = "stream" THEN StreamEnd
                           ELSE Ok(IF IsSome(final_answer) THEN Unwrap(final_answer) ELSE MaxStepsText)
    /\ UNCHANGED <<config, agent, final_answer, reset, driver, yielded, inputs, dispatch, nruns, prev, ncalls, model_err>>

\* the break of the loop of stream_run on an error: the error is yielded and
\* the test of the recovery prompt after the loop is made
\* an error that is yielded without leaving the loop (a variant the code is not)
StreamBreakContinues ==
    /\ yielded' = Append(yielded, YieldErr)
    /\ inputs' = inputs
    /\ pc' = "loop" /\ ret' = ret

StreamBreak ==
    /\ yielded' = Append(yielded, YieldErr)
    /\ inputs' = inputs
    /\ IF RecoverGuard(final_answer, step_number, max_steps)
       THEN pc' = "recover" /\ ret' = ret
       ELSE pc' = "idle" /\ ret' = StreamEnd

\* a terminal step that does not carry the recovery response (a variant the
\* code is not)
SyntheticStepBlank(n, len) == AgentStepNew(n, None)

\* the step stream_run makes up for the recovery response: the default step
\* with the step number and the response for its final answer
SyntheticStep(n, len) ==
    [AgentStepNew(n, None) EXCEPT !.final_answer = Some(Text("recovery", 0, len))]

\* provide_final_answer: one model call; run returns its text or its error,
\* the stream yields a synthetic ActionStep holding the text, or the error
Recover(ok, len) ==
    /\ pc = "recover" /\ ~MemoryPanics(logs)
    /\ ncalls' = ncalls + 1
    /\ model_err' = ~ok
    /\ UNCHANGED <<response, interp>>
    /\ pc' = "idle"
    /\ inputs' = IF ok THEN Append(inputs, Text("recovery", 0, len)) ELSE inputs
    /\ IF driver = "stream"
       THEN /\ final_answer' = final_answer
            /\ ret' = StreamEnd
            /\ yielded' = Append(yielded,
                   IF ok THEN YieldOk(SyntheticStep(step_number, len)) ELSE YieldErr)
       ELSE /\ yielded' = yielded
            /\ IF ok
               THEN final_answer' = Some(Text("recovery", 0, len)) /\ ret' = Ok(Text("recovery", 0, len))
               ELSE final_answer' = final_answer /\ ret' = Err
    /\ UNCHANGED <<config, agent, step_log, reset, driver, dispatch, nruns, prev>>

\* write_inner_memory_from_logs, called first by every step, by the planner and
\* by provide_final_answer, panics: the thread of the run is gone
MemoryPanic ==
    /\ pc \in {"model", "plan_facts", "recover"} /\ MemoryPanics(logs)
    /\ pc' = "panicked"
    /\ UNCHANGED <<config, agent, final_answer, step_log, ret, reset, driver, yielded, inputs,
                   dispatch, nruns, prev, ncalls, heard>>

\* planning_step, first model call (facts); run unwraps the planner's result
PlanFacts(ok) ==
    /\ pc = "plan_facts" /\ ~MemoryPanics(logs)
    /\ ncalls' = ncalls + 1
    /\ model_err' = ~ok
    /\ UNCHANGED <<response, interp>>
    /\ IF ok THEN pc' = "plan_plan" /\ UNCHANGED <<ret, yielded, inputs>>
       ELSE IF driver = "stream" THEN StreamBreak
       ELSE pc' = "panicked" /\ UNCHANGED <<ret, yielded, inputs>>
    /\ UNCHANGED <<config, agent, final_answer, step_log, reset, driver, dispatch, nruns, prev>>

\* planning_step, second model call (plan) and the push of the PlanningStep
PlanPlan(ok) ==
    /\ pc = "plan_plan"
    /\ ncalls' = ncalls + 1
    /\ model_err' = ~ok
    /\ UNCHANGED <<response, interp>>
    /\ IF ok
       THEN /\ pc' = "model" /\ logs' = Append(logs, PlanningStep("facts", "plan"))
            /\ ret' = ret
            /\ yielded' = IF driver = "stream"
                          THEN Append(yielded, YieldOk(PlanningStep("plan", "facts")))
                          ELSE yielded
            /\ inputs' = Append(inputs, PlanningStep("plan", "facts"))
       ELSE /\ logs' = logs
            /\ IF driver = "stream" THEN StreamBreak
               ELSE pc' = "panicked" /\ UNCHANGED <<ret, yielded, inputs>>
    /\ UNCHANGED <<config, step_number, task, final_answer, step_log, reset, driver, dispatch, nruns, prev>>

\* ----------------------------------------------------- model responses
Names == {"search", "research", "final_answer"}
WireIds == {None, Some(""), Some("id")}
\* the task argument of a call: a string, or absent (a task that is not a string
\* takes the same path: neither becomes a task of the sub-agent)
TaskArgs == {"absent", "string"}
Bodies == {"empty", "plain", "action", "code"}

NoAction == [name |-> "none", task |-> "absent"]

\* a tool call as the provider sent it
WireCalls(ids, args) == [id : ids, name : Names, task : args]
SeqsUpTo(S, n) == UNION {[1..k -> S] : k \in 0..n}

\* a provider response: its text (what kind, how long, the action block it
\* holds when it holds one) and its structured tool calls
Responses(bodies, lens, calls, n) ==
    [body : bodies \ {"action", "empty"}, len : lens, action : {NoAction},
     tool_calls : SeqsUpTo(calls, n)]
    \cup [body : bodies \cap {"empty"}, len : {0}, action : {NoAction},
          tool_calls : SeqsUpTo(calls, n)]
    \cup [body : bodies \cap {"action"}, len : lens, action : [name : Names, task : TaskArgs],
          tool_calls : SeqsUpTo(calls, IF n = 0 THEN 0 ELSE 1)]

\* what is remembered of a response: its text and how many tool calls it held
Heard(r) == [body |-> r.body, len |-> r.len, calls |-> Len(r.tool_calls)]

\* deserialize_tool_id / generate_tool_id: an absent or empty id is replaced
OpenAIToolId(id) == IF IsNone(id) \/ id = Some("") THEN Some("nanoid16") ELSE id

\* get_tools_used of the three ModelResponse implementations
ToolsUsed(b, calls) ==
    [i \in 1..Len(calls) |->
        CASE b = "openai" -> [calls[i] EXCEPT !.id = OpenAIToolId(calls[i].id)]
          [] b = "ollama" -> calls[i]
          [] b = "gemini" -> [calls[i] EXCEPT !.id = Some(calls[i].name)]]

\* the single call synthesised from an action block of the response text
ActionCall(a) == [id |-> Some("call_nanoid"), name |-> a.name, task |-> a.task]

\* parse_response succeeds on a non-blank text holding an action block
HasAction(r) == r.body = "action"

\* the calls the function-calling and MCP steps dispatch
EffectiveTools(b, r) == IF HasAction(r) THEN <<ActionCall(r.action)>> ELSE ToolsUsed(b, r.tool_calls)

\* whether a call names a managed sub-agent of this agent
IsManagedName(n) == managed /\ n = "research"

\* Vec<String>::join("\n"): the lengths and one separator between neighbours
RECURSIVE SumLen(_)
SumLen(obs) == IF obs = <<>> THEN 0 ELSE Head(obs).len + SumLen(Tail(obs))
JoinedLen(obs) == IF obs = <<>> THEN 0 ELSE SumLen(obs) + Len(obs) - 1

\* a loop that logs the step and forgets to count it (a variant the code is not)
StepDoneUncounted(sl) ==
    /\ final_answer' = sl.final_answer
    /\ logs' = Append(logs, sl)
    /\ step_number' = step_number
    /\ pc' = "loop"
    /\ step_log' = NoDraft
    /\ yielded' = IF driver = "stream" THEN Append(yielded, YieldOk(sl)) ELSE yielded
    /\ inputs' = Append(inputs, sl)
    /\ UNCHANGED <<task, ret, reset, driver>>

\* a stream that pushes and counts the step and never yields it (a variant
\* the code is not)
StepDoneUnyielded(sl) ==
    /\ final_answer' = sl.final_answer
    /\ logs' = Append(logs, sl)
    /\ step_number' = step_number + 1
    /\ pc' = "loop"
    /\ step_log' = NoDraft
    /\ yielded' = yielded
    /\ inputs' = Append(inputs, sl)
    /\ UNCHANGED <<task, ret, reset, driver>>

\* what the loop does with the step that returned Ok(Some(step)): the step
\* is pushed and counted, its answer kept; the stream also yields the step
StepDone(sl) ==
    /\ final_answer' = sl.final_answer
    /\ logs' = Append(logs, sl)
    /\ step_number' = step_number + 1
    /\ pc' = "loop"
    /\ step_log' = NoDraft
    /\ yielded' = IF driver = "stream" THEN Append(yielded, YieldOk(sl)) ELSE yielded
    /\ inputs' = Append(inputs, sl)
    /\ UNCHANGED <<task, ret, reset, driver>>

\* a loop that logs the failed step and goes on (a variant the code is not)
StepFailedLogged ==
    /\ logs' = Append(logs, [step_log EXCEPT !.error = Some("Generation")])
    /\ step_number' = step_number + 1
    /\ pc' = "loop"
    /\ step_log' = NoDraft
    /\ UNCHANGED <<task, ret, final_answer, reset, driver, yielded, inputs>>

\* what the loop does with the step that returned Err: run returns it, the
\* stream yields it and breaks
StepFailed ==
    /\ IF driver = "stream" THEN StreamBreak
       ELSE pc' = "idle" /\ ret' = Err /\ yielded' = yielded /\ inputs' = inputs
    /\ step_log' = NoDraft
    /\ UNCHANGED <<agent, final_answer, reset, driver>>

ClearDispatch == tools' = <<>> /\ futures' = <<>> /\ observations' = <<>> /\ cursor' = 0

\* the response text taken as the final answer (no tool call in the response)
TextFinal(sl, r) ==
    [sl EXCEPT !.final_answer = Some(Text("response", 0, r.len)),
               !.observations = Some(<<Text("response", 0, r.len)>>)]

\* indexes of the calls of the batch that carry a string task
RECURSIVE StringTasks(_, _)
StringTasks(ts, i) ==
    IF i > Len(ts) THEN <<>>
    ELSE (IF ts[i].task = "string" THEN <<i>> ELSE <<>>) \o StringTasks(ts, i + 1)

\* index of the first call named final_answer, 0 when there is none
RECURSIVE FirstFinal(_, _)
FirstFinal(ts, i) ==
    IF i > Len(ts) THEN 0
    ELSE IF ts[i].name = "final_answer" THEN i ELSE FirstFinal(ts, i + 1)

\* the futures the function-calling step pushes: one per call whose name is
\* not a managed sub-agent's, in call order
RECURSIVE PushedCalls(_, _)
PushedCalls(ts, i) ==
    IF i > Len(ts) THEN <<>>
    ELSE (IF IsManagedName(ts[i].name) THEN <<>> ELSE <<i>>) \o PushedCalls(ts, i + 1)

\* FunctionCallingAgent::step from the model's answer to the next suspension
FcModelReturns(r) ==
    /\ pc = "model" /\ variant = "function_calling" /\ ~MemoryPanics(logs)
    /\ ncalls' = ncalls + 1
    /\ model_err' = FALSE
    /\ response' = Heard(r)
    /\ interp' = interp
    /\ LET ts == EffectiveTools(backend, r)
           sl == [step_log EXCEPT !.llm_output = Some(Text("response", 0, r.len)),
                                  !.tool_call = Some(ts)]
       IN IF ts = <<>>
          THEN StepDone(TextFinal(sl, r)) /\ ClearDispatch
          ELSE IF IsManagedName(ts[1].name)
          THEN IF StringTasks(ts, 1) = <<>>
               THEN StepDone([sl EXCEPT !.observations = Some(<<>>)]) /\ ClearDispatch
               ELSE /\ pc' = "managed" /\ step_log' = sl
                    /\ tools' = ts /\ futures' = StringTasks(ts, 1)
                    /\ observations' = <<>> /\ cursor' = 1
                    /\ UNCHANGED <<agent, final_answer, ret, reset, driver, yielded, inputs>>
          ELSE IF FirstFinal(ts, 1) # 0
          THEN /\ pc' = "final_tool" /\ step_log' = sl
               /\ tools' = ts /\ futures' = <<>>
               /\ observations' = <<>> /\ cursor' = FirstFinal(ts, 1)
               /\ UNCHANGED <<agent, final_answer, ret, reset, driver, yielded, inputs>>
          ELSE IF PushedCalls(ts, 1) = <<>>
          THEN StepDone([sl EXCEPT !.observations = Some(<<>>)]) /\ ClearDispatch
          ELSE /\ pc' = "join_all" /\ step_log' = sl
               /\ tools' = ts
               /\ futures' = [k \in 1..Len(PushedCalls(ts, 1)) |->
                                 [call |-> PushedCalls(ts, 1)[k], state |-> "pending", out |-> NoText]]
               /\ observations' = <<>> /\ cursor' = 0
               /\ UNCHANGED <<agent, final_answer, ret, reset, driver, yielded, inputs>>
    /\ UNCHANGED <<config, nruns, prev>>

\* the model call of a step fails (model.run fails or the response holds no
\* message): the step returns the error
ModelFails ==
    /\ pc = "model" /\ ~MemoryPanics(logs)
    /\ ncalls' = ncalls + 1
    /\ model_err' = TRUE
    /\ response' = NoResponse
    /\ interp' = interp
    /\ StepFailed
    /\ UNCHANGED <<config, dispatch, nruns, prev>>

\* one serial run of the managed sub-agent on the next task of the batch
ManagedReturns(ok, len) ==
    /\ pc = "managed" /\ variant = "function_calling"
    /\ IF ~ok
       THEN StepFailed /\ ClearDispatch
       ELSE LET obs == Append(observations, Text("agent", futures[cursor], len))
            IN IF cursor = Len(futures)
               THEN StepDone([step_log EXCEPT !.observations = Some(obs)]) /\ ClearDispatch
               ELSE /\ observations' = obs /\ cursor' = cursor + 1
                    /\ UNCHANGED <<agent, frame, tools, futures>>
    /\ UNCHANGED <<config, nruns, prev, ncalls, heard>>

\* the call of the tool group for a call named final_answer
FinalToolReturns(ok, len) ==
    /\ pc = "final_tool"
    /\ IF ok
       THEN StepDone([step_log EXCEPT !.final_answer = Some(Text("final_tool", cursor, len)),
                                      !.observations = Some(<<Text("final_tool", cursor, len)>>)])
       ELSE StepFailed
    /\ ClearDispatch
    /\ UNCHANGED <<config, nruns, prev, ncalls, heard>>

\* one of the futures under join_all completes
ToolCompletes(k, ok, len) ==
    /\ pc = "join_all"
    /\ k \in 1..Len(futures)
    /\ futures[k].state = "pending"
    /\ futures' = [futures EXCEPT ![k] =
                      [@ EXCEPT !.state = "done",
                                !.out = Text(IF ok THEN "tool" ELSE "tool_err", futures[k].call, len)]]
    /\ UNCHANGED <<config, agent, frame, tools, observations, cursor, nruns, prev, ncalls, heard>>

\* join_all returns the results in the order the futures were pushed
JoinAll ==
    /\ pc = "join_all"
    /\ \A k \in 1..Len(futures) : futures[k].state = "done"
    /\ StepDone([step_log EXCEPT !.observations = Some([k \in 1..Len(futures) |-> futures[k].out])])
    /\ ClearDispatch
    /\ UNCHANGED <<config, nruns, prev, ncalls, heard>>

\* ------------------------------------------------------------ MCP agent
NameLen(n) == CASE n = "search" -> 6 [] n = "research" -> 8 [] OTHER -> 12

\* "Observation from <name>: " ++ the first 30000 characters of the text
McpObservation(i, n, len) ==
    Text("mcp", i, McpPrefixLen + NameLen(n) + (IF len > ObsLimit THEN ObsLimit ELSE len))
\* "Error from <name>: <error>"
McpError(i, n, len) == Text("mcp_err", i, McpErrPrefixLen + NameLen(n) + len)

\* the results of the clients that own the tool, one observation each
McpResults(i, n, rs) ==
    [k \in 1..Len(rs) |-> IF rs[k].ok THEN McpObservation(i, n, rs[k].len)
                          ELSE McpError(i, n, rs[k].len)]

\* results of call_tool, one per client that lists the tool
ClientResults(oks, lens, n) == SeqsUpTo([ok : oks, len : lens], n)

\* McpAgent::step from the model's answer to the first call of the batch
McpModelReturns(r) ==
    /\ pc = "model" /\ variant = "mcp" /\ ~MemoryPanics(logs)
    /\ ncalls' = ncalls + 1
    /\ model_err' = FALSE
    /\ response' = Heard(r)
    /\ interp' = interp
    /\ LET used == ToolsUsed(backend, r.tool_calls)
           ts == EffectiveTools(backend, r)
           sl == [step_log EXCEPT !.llm_output = Some(Text("response", 0, r.len)),
                                  !.tool_call = IF HasAction(r) THEN Some(ts)
                                                ELSE IF used = <<>> THEN None ELSE Some(used)]
       IN IF ts = <<>>
          THEN StepDone(TextFinal(sl, r)) /\ ClearDispatch
          ELSE /\ pc' = "mcp" /\ step_log' = sl
               /\ tools' = ts /\ futures' = <<>> /\ observations' = <<>> /\ cursor' = 1
               /\ UNCHANGED <<agent, final_answer, ret, reset, driver, yielded, inputs>>
    /\ UNCHANGED <<config, nruns, prev>>

\* the end of one iteration of the loop over the batch: the next call, or
\* the observations stored and the step returned
McpAdvance(obs) ==
    IF cursor = Len(tools)
    THEN StepDone([step_log EXCEPT !.observations = Some(obs)]) /\ ClearDispatch
    ELSE /\ observations' = obs /\ cursor' = cursor + 1
         /\ UNCHANGED <<agent, frame, tools, futures>>

\* a call named final_answer: the tool group is called and the step returns
McpFinal(ok, len) ==
    /\ pc = "mcp" /\ tools[cursor].name = "final_answer"
    /\ IF ok
       THEN StepDone([step_log EXCEPT !.observations = Some(<<Text("final_tool", cursor, len)>>),
                                      !.final_answer = Some(Text("final_tool", cursor, len))])
       ELSE StepFailed
    /\ ClearDispatch
    /\ UNCHANGED <<config, nruns, prev, ncalls, heard>>

\* a call of a tool: every client is asked for its tools, the owners are called
\* together, and called_tools (one entry per call so far) is indexed by result
McpTool(listed, rs) ==
    /\ pc = "mcp" /\ tools[cursor].name # "final_answer" /\ ~IsManagedName(tools[cursor].name)
    /\ IF ~listed
       THEN StepFailed /\ ClearDispatch
       ELSE IF Len(rs) > cursor
       THEN pc' = "panicked" /\ UNCHANGED <<agent, final_answer, step_log, ret, reset, driver, yielded, inputs, dispatch>>
       ELSE McpAdvance(observations \o McpResults(cursor, tools[cursor].name, rs))
    /\ UNCHANGED <<config, nruns, prev, ncalls, heard>>

\* a call of a managed sub-agent with a string task: the sub-agent runs
McpManaged(ok, len) ==
    /\ pc = "mcp" /\ IsManagedName(tools[cursor].name) /\ tools[cursor].task = "string"
    /\ IF ok
       THEN McpAdvance(Append(observations, Text("agent", cursor, len)))
       ELSE StepFailed /\ ClearDispatch
    /\ UNCHANGED <<config, nruns, prev, ncalls, heard>>

\* a call of a managed sub-agent without a string task: nothing is run
McpSkip ==
    /\ pc = "mcp" /\ IsManagedName(tools[cursor].name) /\ tools[cursor].task # "string"
    /\ McpAdvance(observations)
    /\ UNCHANGED <<config, nruns, prev, ncalls, heard>>

\* ----------------------------------------------------------- code agent
\* what LocalPythonInterpreter::forward can return
InterpOutcomes(lens) ==
    [kind : {"ok"}, elogs : lens, result : lens]
    \cup [kind : {"final"}, elogs : {0}, result : lens]
    \cup [kind : {"error"}, elogs : {0}, result : {0}]

\* the observation text built from the execution logs and the result
RawObservationLen(elogs, result) ==
    CASE elogs > 0 /\ result > 0 -> ExecLogsPrefixLen + elogs + ResultSepLen + result
      [] elogs > 0 /\ result = 0 -> ExecLogsPrefixLen + elogs
      [] elogs = 0 /\ result > 0 -> ResultPrefixLen + result
      [] OTHER -> NoOutputLen

\* the 30000 character cut of the code agent, the notice appended
Truncate(len) == IF len > ObsLimit THEN ObsLimit + NoticeLen ELSE len

\* the synthetic call recorded by the code agent
InterpreterCall == [id |-> Some("call_nanoid"), name |-> "python_interpreter", task |-> "absent"]

\* a step that takes the text without a code block for the answer (a variant
\* the code is not)
ParseFailedAsAnswer(sl) == [sl EXCEPT !.final_answer = sl.llm_output]

\* parse_code_blobs found no fenced block: the parsing error is stored in the
\* step, which is returned as it is
ParseFailed(sl) == [sl EXCEPT !.error = Some("Parsing")]

\* a step that stores the FinalAnswer signal of the sandbox as an error and
\* an interpreter error as the answer (a variant the code is not)
SandboxStepSwapped(sc, o) ==
    CASE o.kind = "ok" ->
           [sc EXCEPT !.observations =
               Some(<<Text("interp", 1, Truncate(RawObservationLen(o.elogs, o.result)))>>)]
      [] o.kind = "final" -> [sc EXCEPT !.error = Some("Execution")]
      [] OTHER -> [sc EXCEPT !.final_answer = Some(Text("sandbox_final", 1, o.result))]

\* the step after the sandbox ran the code: the observation of a normal run,
\* the answer of a FinalAnswer signal, the error of any other failure
SandboxStep(sc, o) ==
    CASE o.kind = "ok" ->
           [sc EXCEPT !.observations =
               Some(<<Text("interp", 1, Truncate(RawObservationLen(o.elogs, o.result)))>>)]
      [] o.kind = "final" ->
           [sc EXCEPT !.final_answer = Some(Text("sandbox_final", 1, o.result)),
                      !.observations = Some(<<Text("final_obs", 1, FinalPrefixLen + o.result)>>)]
      [] OTHER -> [sc EXCEPT !.error = Some("Execution")]

\* CodeAgent::step: the model's answer parsed and the code run in the sandbox
CodeModelReturns(r, o) ==
    /\ pc = "model" /\ variant = "code" /\ ~MemoryPanics(logs)
    /\ ncalls' = ncalls + 1
    /\ model_err' = FALSE
    /\ response' = Heard(r)
    /\ interp' = IF r.body = "code" THEN o ELSE NoOutcome
    /\ LET sl == [step_log EXCEPT !.llm_output = Some(Text("response", 0, r.len))]
           sc == [sl EXCEPT !.tool_call = Some(<<InterpreterCall>>)]
       IN IF r.body # "code"
          THEN StepDone(ParseFailed(sl))
          ELSE StepDone(SandboxStep(sc, o))
    /\ UNCHANGED <<config, dispatch, nruns, prev>>

\* ------------------------------------------------------- specifications
\* the caller starts a run: at most MaxRuns runs, and a run that keeps the
\* log (reset = FALSE) only on a log of at most MaxKept entries
MayStart(r) == nruns < MaxRuns /\ (r \/ Len(logs) <= MaxKept)
Caller == \E r \in BOOLEAN : MayStart(r) /\ Run(TaskOf(nruns + 1), r) /\ prev' = prev
StreamCaller == \E r \in BOOLEAN : MayStart(r) /\ StreamRun(TaskOf(nruns + 1), r) /\ prev' = prev

\* the steps of a run, the environment's answers drawn from the given sets:
\* responses rs, text lengths lens, tool outcomes oks, up to n owning clients
Steps(rs, lens, oks, n) ==
    \/ pc = "model" /\ \E r \in rs : FcModelReturns(r)
    \/ pc = "model" /\ \E r \in rs : McpModelReturns(r)
    \/ pc = "model" /\ \E r \in rs, o \in InterpOutcomes(lens) : CodeModelReturns(r, o)
    \/ ModelFails
    \/ \E ok \in BOOLEAN, len \in lens : ManagedReturns(ok, len)
    \/ \E ok \in BOOLEAN, len \in lens : FinalToolReturns(ok, len)
    \/ \E k \in 1..Len(futures), ok \in oks, len \in lens : ToolCompletes(k, ok, len)
    \/ JoinAll
    \/ \E ok \in BOOLEAN, len \in lens : McpFinal(ok, len)
    \/ pc = "mcp" /\ \E listed \in BOOLEAN, cr \in ClientResults(oks, lens, n) : McpTool(listed, cr)
    \/ \E ok \in BOOLEAN, len \in lens : McpManaged(ok, len)
    \/ McpSkip

\* the loop around the steps: its test, the planner, the recovery prompt
Loop(lens) ==
    \/ LoopHead
    \/ \E ok \in BOOLEAN : PlanFacts(ok)
    \/ \E ok \in BOOLEAN : PlanPlan(ok)
    \/ \E ok \in BOOLEAN, len \in lens : Recover(ok, len)
    \/ MemoryPanic

\* the calls of a provider that sends every id the same way (a task is given
\* only to the managed agent)
CallsWithId(id) == {c \in WireCalls({id}, TaskArgs) : c.task = "string" => c.name = "research"}

\* the step loop over several runs, of run and of stream_run: short texts, at
\* most one call per response, tools that succeed
LoopCalls == CallsWithId(Some("id"))
LoopResponses == Responses({"plain", "code"}, {5}, LoopCalls, 1)

Next == Caller \/ StreamCaller \/ Loop({5}) \/ Steps(LoopResponses, {5}, {TRUE}, 1)

Spec == Init /\ [][Next]_vars

\* one step of one run on every provider, with every shape of response:
\* batches of up to MaxCalls calls, ids absent, empty or given, tools that fail,
\* texts that are empty or longer than the observation limit
StepLens == {0, ObsLimit + NoticeLen + 1}
StepResponses == UNION {Responses(Bodies, {5}, CallsWithId(id), MaxCalls) : id \in WireIds}

InitStep == Construct(Variants, Backends, {2}, {None}, BOOLEAN) /\ Idle

FirstRun == nruns = 0 /\ Run(TaskOf(1), TRUE) /\ prev' = prev

NextStep == FirstRun \/ LoopHead \/ Steps(StepResponses, StepLens, BOOLEAN, MaxClients)

SpecStep == InitStep /\ [][NextStep]_vars

\* the same task given twice to one agent, once to run and once to
\* stream_run in either order, each time with reset = true: the caller keeps
\* what the first run was handed and what it left, and starts the second
\* when the first has ended
PairLens == {1, 2}
Snapshot == [driver |-> driver, inputs |-> inputs, logs |-> logs, ret |-> ret, yielded |-> yielded]
Finished(run) ==
    /\ run.ret.status = IF run.driver = "stream" THEN "End" ELSE "Ok"
    /\ \A i \in 1..Len(run.yielded) : run.yielded[i].status = "Ok"
PairCaller ==
    \E d \in {"run", "stream"} :
        /\ nruns < 2
        /\ nruns = 1 => (d # driver /\ Finished(Snapshot))
        /\ Start(d, TaskOf(1), TRUE)
        /\ prev' = IF nruns = 0 THEN NoRun ELSE Snapshot

InitPair == Construct(Variants, {"openai"}, 0..MaxSteps - 1, Intervals, {TRUE}) /\ Idle

NextPair == PairCaller \/ Loop(PairLens) \/ Steps(LoopResponses, PairLens, {TRUE}, 1)

SpecPair == InitPair /\ [][NextPair]_vars

\* ------------------------------------------- the streamed model call
\* a chunk of the provider: a content delta, a chunk without content (a role
\* or a tool-call delta), or a chunk whose choices are empty
Tokens == {"a", "b"}
Chunks ==
    [kind : {"content"}, content : Tokens] \cup [kind : {"other", "nochoice"}, content : {""}]

\* the in-order concatenation of the content deltas of a sequence of chunks
RECURSIVE ContentOf(_)
ContentOf(cs) ==
    IF cs = <<>> THEN <<>>
    ELSE (IF Head(cs).kind = "content" THEN <<Head(cs).content>> ELSE <<>>) \o ContentOf(Tail(cs))

\* an accumulation that keeps only the latest delta (a variant the code is not)
AccumulateLatest(text, res) == IF res.kind = "content" THEN <<res.content>> ELSE text

\* accumulated_content.push_str(content) when the delta holds content
Accumulate(text, res) == IF res.kind = "content" THEN Append(text, res.content) ELSE text

\* the tasks that have ended, by returning or by a panic
Ended(t) == t.pc \in {"done", "panicked"}

\* forward_deserialized_chat_response_stream: the next event of the provider
\* is sent on the channel when it has room and its receiver lives
Forward ==
    /\ stream.open /\ feed # <<>> /\ ~Ended(broadcast_task)
    /\ Len(stream.queue) < ChanCap
    /\ feed' = Tail(feed)
    /\ received' = Append(received, Head(feed))
    /\ stream' = [stream EXCEPT !.queue = Append(@, Head(feed))]
    /\ UNCHANGED <<accumulation, broadcast_task, accumulation_task, tx, stream_response>>

\* the forwarder returns: the events are over, an event was an error, or
\* the receiver of the channel is gone; its sender is dropped
ForwardEnds ==
    /\ stream.open
    /\ stream' = [stream EXCEPT !.open = FALSE]
    /\ UNCHANGED <<feed, received, accumulation, broadcast_task, accumulation_task, tx,
                   stream_response>>

\* broadcast::Sender::send: an error without receivers; with a receiver
\* the value is stored, the oldest one overwritten when the ring is full
TokenSend(ch, m) ==
    IF ch.receivers = 0 THEN ch
    ELSE IF Len(ch.ring) = TokCap
    THEN [ch EXCEPT !.ring = Append(Tail(@), m), !.lagged = TRUE]
    ELSE [ch EXCEPT !.ring = Append(@, m)]

\* a broadcasting task that ends without dropping accumulation_tx (a variant
\* the code is not)
BroadcastRecvKeepsSender ==
    /\ broadcast_task.pc = "recv"
    /\ IF stream.queue # <<>>
       THEN /\ broadcast_task' = [broadcast_task EXCEPT !.pc = "forward",
                                                        !.res = Some(Head(stream.queue))]
            /\ stream' = [stream EXCEPT !.queue = Tail(@)]
       ELSE /\ ~stream.open
            /\ broadcast_task' = [broadcast_task EXCEPT !.pc = "done"]
            /\ stream' = stream
    /\ accumulation' = accumulation
    /\ UNCHANGED <<feed, received, accumulation_task, tx, stream_response>>

\* the broadcasting task at stream.recv(): the next chunk, or the end of the
\* loop and the drop of accumulation_tx
BroadcastRecv ==
    /\ broadcast_task.pc = "recv"
    /\ IF stream.queue # <<>>
       THEN /\ broadcast_task' = [broadcast_task EXCEPT !.pc = "forward",
                                                        !.res = Some(Head(stream.queue))]
            /\ stream' = [stream EXCEPT !.queue = Tail(@)]
            /\ accumulation' = accumulation
       ELSE /\ ~stream.open
            /\ broadcast_task' = [broadcast_task EXCEPT !.pc = "done"]
            /\ accumulation' = [accumulation EXCEPT !.tx = FALSE]
            /\ stream' = stream
    /\ UNCHANGED <<feed, received, accumulation_task, tx, stream_response>>

\* the broadcasting task at accumulation_tx.send(res.clone()): the chunk is
\* queued when there is room; the loop breaks when the receiver is gone
BroadcastForward ==
    /\ broadcast_task.pc = "forward"
    /\ IF ~accumulation.rx
       THEN /\ broadcast_task' = [broadcast_task EXCEPT !.pc = "done"]
            /\ accumulation' = [accumulation EXCEPT !.tx = FALSE]
       ELSE /\ Len(accumulation.queue) < ChanCap
            /\ broadcast_task' = [broadcast_task EXCEPT !.pc = "tell"]
            /\ accumulation' = [accumulation EXCEPT
                                    !.queue = Append(@, Unwrap(broadcast_task.res))]
    /\ UNCHANGED <<feed, received, stream, accumulation_task, tx, stream_response>>

\* a content delta sent as Content whether or not it is the first (a variant
\* the code is not)
ContentStatusOnly(first, content) == [status |-> "Content", content |-> content]
\* the Status a content delta is sent as: FirstContent while first_content is
\* set, Content afterwards
ContentStatus(first, content) ==
    [status |-> IF first THEN "FirstContent" ELSE "Content", content |-> content]

\* the broadcasting task reads res.choices[0] (a panic when there is none)
\* and sends the content on the token channel, the first as FirstContent;
\* told lists the values it handed to tx.send, in order
BroadcastTell ==
    /\ broadcast_task.pc = "tell"
    /\ LET res == Unwrap(broadcast_task.res)
       IN CASE res.kind = "nochoice" ->
                 /\ broadcast_task' = [broadcast_task EXCEPT !.pc = "panicked"]
                 /\ accumulation' = [accumulation EXCEPT !.tx = FALSE]
                 /\ tx' = tx
            [] res.kind = "content" ->
                 /\ broadcast_task' =
                        [broadcast_task EXCEPT
                             !.pc = "recv", !.first_content = FALSE,
                             !.told = Append(@, ContentStatus(broadcast_task.first_content,
                                                              res.content))]
                 /\ accumulation' = accumulation
                 /\ tx' = TokenSend(tx, ContentStatus(broadcast_task.first_content, res.content))
            [] OTHER ->
                 /\ broadcast_task' = [broadcast_task EXCEPT !.pc = "recv"]
                 /\ accumulation' = accumulation
                 /\ tx' = tx
    /\ UNCHANGED <<feed, received, stream, accumulation_task, stream_response>>

\* the accumulation task at accumulation_rx.recv(): the next chunk is read
\* (res.choices[0], a panic when there is none) and its content appended; the
\* loop ends when the channel is empty and its sender dropped
AccumulateRecv ==
    /\ accumulation_task.pc = "recv"
    /\ IF accumulation.queue # <<>>
       THEN IF Head(accumulation.queue).kind = "nochoice"
            THEN /\ accumulation_task' = [accumulation_task EXCEPT !.pc = "panicked"]
                 /\ accumulation' = [accumulation EXCEPT !.rx = FALSE, !.queue = <<>>]
            ELSE /\ accumulation_task' = [accumulation_task EXCEPT !.accumulated_content =
                                              Accumulate(@, Head(accumulation.queue))]
                 /\ accumulation' = [accumulation EXCEPT !.queue = Tail(@)]
       ELSE /\ ~accumulation.tx
            /\ accumulation_task' = [accumulation_task EXCEPT !.pc = "done"]
            /\ accumulation' = accumulation
    /\ UNCHANGED <<feed, received, stream, broadcast_task, tx, stream_response>>

\* tokio::join! of the two handles: the response holds the accumulated
\* content, or the call fails when a task panicked
Join ==
    /\ Ended(accumulation_task) /\ Ended(broadcast_task) /\ stream_response = None
    /\ stream_response' =
           IF accumulation_task.pc = "done" /\ broadcast_task.pc = "done"
           THEN Some([status |-> "Ok", response_text |-> accumulation_task.accumulated_content])
           ELSE Some([status |-> "Err", response_text |-> <<>>])
    /\ UNCHANGED <<feed, received, stream, accumulation, broadcast_task, accumulation_task, tx>>

\* a subscriber of the token channel takes the oldest value kept for it
Subscriber ==
    /\ tx.ring # <<>>
    /\ tx' = [tx EXCEPT !.ring = Tail(@), !.seen = Append(@, Head(tx.ring))]
    /\ UNCHANGED <<feed, received, stream, accumulation, broadcast_task, accumulation_task,
                   stream_response>>

\* the agent, which takes no part in the streamed call
agentvars == <<variant, backend, max_steps, planning_interval, managed, agent, frame, dispatch,
               nruns, prev, ncalls, heard>>

InitStream ==
    /\ Construct({"code"}, {"openai"}, {1}, {None}, {FALSE})
    /\ \E cs \in SeqsUpTo(Chunks, MaxChunks), n \in 0..1 : StreamCall(cs, n)
    /\ SerdeIdle /\ GateIdle /\ BridgeIdle /\ AggregateIdle

NextStream ==
    \/ Forward /\ UNCHANGED <<agentvars, serde, gate, bridging, aggregating>>
    \/ ForwardEnds /\ UNCHANGED <<agentvars, serde, gate, bridging, aggregating>>
    \/ BroadcastRecv /\ UNCHANGED <<agentvars, serde, gate, bridging, aggregating>>
    \/ BroadcastForward /\ UNCHANGED <<agentvars, serde, gate, bridging, aggregating>>
    \/ BroadcastTell /\ UNCHANGED <<agentvars, serde, gate, bridging, aggregating>>
    \/ AccumulateRecv /\ UNCHANGED <<agentvars, serde, gate, bridging, aggregating>>
    \/ Join /\ UNCHANGED <<agentvars, serde, gate, bridging, aggregating>>
    \/ Subscriber /\ UNCHANGED <<agentvars, serde, gate, bridging, aggregating>>

SpecStream == InitStream /\ [][NextStream]_vars

\* the two spawned tasks and the join are scheduled by the runtime whenever
\* they can run; the provider and the subscribers are not
beside_stream == <<agentvars, serde, gate, bridging, aggregating>>
FairStream ==
    /\ WF_vars(BroadcastRecv /\ UNCHANGED beside_stream)
    /\ WF_vars(BroadcastForward /\ UNCHANGED beside_stream)
    /\ WF_vars(BroadcastTell /\ UNCHANGED beside_stream)
    /\ WF_vars(AccumulateRecv /\ UNCHANGED beside_stream)
    /\ WF_vars(Join /\ UNCHANGED beside_stream)
SpecStreamFair == SpecStream /\ FairStream

\* ------------------------------------------- tool calls through serde
\* serde_json::Value, as far as the arguments of a tool call need it: a
\* number, an object (its members) or a string (its text)
ValueNumber(n) == [kind |-> "number", num |-> n, members |-> {}, text |-> None]
ValueObject(m) == [kind |-> "object", num |-> 0, members |-> m, text |-> None]
ValueString(t) == [kind |-> "string", num |-> 0, members |-> {}, text |-> Some(t)]

\* a text that is no JSON document
PlainText(s) == [form |-> "plain", plain |-> s, of |-> None, compact |-> TRUE]
\* a JSON document of the value v, written without or with white space
JsonText(v, c) == [form |-> "json", plain |-> "", of |-> Some(v), compact |-> c]

\* serde_json::to_string: the compact document of a value
to_string(v) == JsonText(v, TRUE)
\* serde_json::from_str: the value of a document, an error on any other text
from_str(t) == IF t.form = "json" THEN [ok |-> TRUE, value |-> Unwrap(t.of)]
              ELSE [ok |-> FALSE, value |-> ValueNumber(0)]

\* the values with strings nested at most d deep
RECURSIVE JsonValues(_)
JsonValues(d) ==
    LET flat == {ValueNumber(1)} \cup {ValueObject(m) : m \in {{}, {<<"q", 1>>}}}
    IN IF d = 0 THEN flat
       ELSE flat \cup {ValueString(PlainText("hello"))}
                 \cup {ValueString(JsonText(v, c)) : v \in JsonValues(d - 1), c \in BOOLEAN}

\* the ToolCall values: id absent, empty or set; call_type absent or set
ToolCalls == [id : {None, Some(""), Some("call_1")}, call_type : {None, Some("function")},
              function : [name : {"search"}, arguments : JsonValues(MaxDepth)]]

\* deserialize_arguments that keeps what the document holds
DeserializeArgumentsKept(value) == value

\* serialize_arguments: the text of a string, the document of anything else
SerializeArguments(value) ==
    IF value.kind = "string" THEN Unwrap(value.text) ELSE to_string(value)

\* deserialize_arguments: a string that parses is replaced by what it parses to
DeserializeArguments(value) ==
    IF value.kind = "string" /\ from_str(Unwrap(value.text)).ok
    THEN from_str(Unwrap(value.text)).value
    ELSE value

\* #[derive(Serialize)] of ToolCall and FunctionCall: arguments goes through
\* serialize_arguments and is written with serialize_str
SerializeToolCall(c) ==
    [id |-> c.id, type |-> c.call_type,
     function |-> [name |-> c.function.name,
                   arguments |-> ValueString(SerializeArguments(c.function.arguments))]]

\* #[derive(Deserialize)] of ToolCall and FunctionCall, with deserialize_tool_id
\* and deserialize_arguments
DeserializeToolCall(w) ==
    [id |-> OpenAIToolId(w.id), call_type |-> w.type,
     function |-> [name |-> w.function.name,
                   arguments |-> DeserializeArguments(w.function.arguments)]]

\* serde_json::to_value of the tool call in hand
Serialize ==
    /\ IsSome(original) /\ wire = None
    /\ wire' = Some(SerializeToolCall(Unwrap(original)))
    /\ UNCHANGED <<original, restored>>

\* serde_json::from_value of the document
Deserialize ==
    /\ IsSome(wire) /\ restored = None
    /\ restored' = Some(DeserializeToolCall(Unwrap(wire)))
    /\ UNCHANGED <<original, wire>>

InitSerde ==
    /\ Construct({"code"}, {"openai"}, {1}, {None}, {FALSE})
    /\ StreamIdle /\ GateIdle /\ BridgeIdle /\ AggregateIdle
    /\ original \in {Some(c) : c \in ToolCalls} /\ wire = None /\ restored = None

NextSerde ==
    \/ Serialize /\ UNCHANGED <<agentvars, streaming, gate, bridging, aggregating>>
    \/ Deserialize /\ UNCHANGED <<agentvars, streaming, gate, bridging, aggregating>>

SpecSerde == InitSerde /\ [][NextSerde]_vars

\* ------------------------------------------- the API-key middleware
\* the values of the variables of the environment the server may run under
Environs == [ENABLE_AUTH : {None, Some("true"), Some("false"), Some("TRUE")},
             LUMO_API_KEY : {None, Some("k1"), Some("k2")}]

\* a header value: its bytes, and whether HeaderValue::to_str reads them
\* (they are visible ASCII)
HeaderValue(scheme, key, visible) == [scheme |-> scheme, key |-> key, visible |-> visible]
\* format!("Bearer {}", api_key)
Bearer(api_key) == HeaderValue("Bearer ", api_key, TRUE)

Authorizations == {None, Some(Bearer("k1")), Some(Bearer("k2")), Some(HeaderValue("", "k1", TRUE)),
                   Some(HeaderValue("Bearer ", "k1", FALSE))}
Requests == [method : {"GET", "POST"}, path : {"/health_check", "/run", "/docs"},
             authorization : Authorizations]

\* validate_api_key: the key of the environment is read first
ValidationOk(b) == [ok |-> TRUE, valid |-> b, error |-> ""]
ValidationErr(e) == [ok |-> FALSE, valid |-> FALSE, error |-> e]
validate_api_key(req) ==
    IF IsNone(environ.LUMO_API_KEY)
    THEN ValidationErr("Server API key not configured")
    ELSE IF IsNone(req.authorization) THEN ValidationOk(FALSE)
    ELSE IF ~Unwrap(req.authorization).visible
    THEN ValidationErr("Invalid authorization header")
    ELSE ValidationOk(Unwrap(req.authorization) = Bearer(Unwrap(environ.LUMO_API_KEY)))

\* is_auth_enabled
is_auth_enabled == environ.ENABLE_AUTH = Some("true")

HttpResponse(status, body) == [status |-> status, body |-> body]

\* a request reaches the server
Arrive(req) ==
    /\ request = None
    /\ request' = Some(req)
    /\ UNCHANGED <<environ, called, reply>>

\* ApiKeyAuthMiddleware::call
Call ==
    /\ IsSome(request) /\ ~called /\ reply = None
    /\ LET req == Unwrap(request)
           checked == validate_api_key(req)
       IN IF req.path = "/health_check" \/ ~is_auth_enabled \/ (checked.ok /\ checked.valid)
          THEN called' = TRUE /\ reply' = reply
          ELSE /\ called' = called
               /\ reply' = IF checked.ok
                           THEN Some(HttpResponse(401, "Invalid or missing API key"))
                           ELSE Some(HttpResponse(500, checked.error))
    /\ UNCHANGED <<environ, request>>

\* the wrapped service: health_check answers Ok() with no body, the other
\* handlers answer with a body, a request without a route is not found
Service ==
    /\ called /\ reply = None
    /\ LET req == Unwrap(request)
       IN \E status \in {200, 500} :
              reply' = IF req.method = "GET" /\ req.path = "/health_check"
                       THEN Some(HttpResponse(200, ""))
                       ELSE IF req.method = "POST" /\ req.path = "/run"
                       THEN Some(HttpResponse(status, "json"))
                       ELSE Some(HttpResponse(404, ""))
    /\ UNCHANGED <<environ, request, called>>

\* the answer is sent; the server waits for the next request
Respond ==
    /\ IsSome(reply)
    /\ request' = None /\ called' = FALSE /\ reply' = None
    /\ UNCHANGED environ

InitGate ==
    /\ Construct({"code"}, {"openai"}, {1}, {None}, {FALSE})
    /\ StreamIdle /\ SerdeIdle /\ BridgeIdle /\ AggregateIdle
    /\ \E e \in Environs : Listening(e)

NextGate ==
    \/ (\E req \in Requests : Arrive(req)) /\ UNCHANGED <<agentvars, streaming, serde, bridging, aggregating>>
    \/ Call /\ UNCHANGED <<agentvars, streaming, serde, bridging, aggregating>>
    \/ Service /\ UNCHANGED <<agentvars, streaming, serde, bridging, aggregating>>
    \/ Respond /\ UNCHANGED <<agentvars, streaming, serde, bridging, aggregating>>

SpecGate == InitGate /\ [][NextGate]_vars

\* ------------------------------------------- the SSE bridge of the server
\* the items of a step stream: steps, then possibly one error
StepItems == {[k \in 1..n |-> [status |-> "Ok", step |-> k]] \o tl :
                  n \in 0..MaxSteps, tl \in {<<>>, <<[status |-> "Err", step |-> 0]>>}}
\* the values of Status the senders put on the token channel
Statuses == {"FirstContent", "Content", "ToolCallStart", "ToolCallContent"}

\* StreamEvent
StreamEvent(type, of) == [type |-> type, of |-> of]
\* the token event of a Status value in the select loop, if it has one
TokenEvents(status) ==
    IF status.kind \in {"FirstContent", "Content", "ToolCallStart"}
    THEN <<StreamEvent("token", status.n)>> ELSE <<>>
\* the token event of a Status value in the drain loop, if it has one
DrainedEvents(status) ==
    IF status.kind \in {"FirstContent", "Content"}
    THEN <<StreamEvent("token", status.n)>> ELSE <<>>

\* a sender puts a value on the token channel: the oldest value kept for the
\* receiver is overwritten when the channel is full
TokenSent(kind) ==
    /\ bridge # "open" /\ ~rx.closed /\ rx.sent < MaxTokens
    /\ rx' = IF Len(rx.queue) = RxCap
             THEN [rx EXCEPT !.queue = Append(Tail(@), [kind |-> kind, n |-> rx.sent + 1]),
                             !.lagged = TRUE, !.sent = @ + 1]
             ELSE [rx EXCEPT !.queue = Append(@, [kind |-> kind, n |-> rx.sent + 1]),
                             !.sent = @ + 1]
    /\ UNCHANGED <<offered, step_stream, sse, bridge>>

\* the last sender of the token channel is dropped
SendersDropped ==
    /\ bridge # "open" /\ ~rx.closed
    /\ rx' = [rx EXCEPT !.closed = TRUE]
    /\ UNCHANGED <<offered, step_stream, sse, bridge>>

\* agent.stream_run: the stream, or an error event and the return
Open(ok) ==
    /\ bridge = "open"
    /\ IF ok THEN bridge' = "select" /\ sse' = sse
       ELSE bridge' = "returned" /\ sse' = Append(sse, StreamEvent("error", 0))
    /\ UNCHANGED <<offered, step_stream, rx>>

\* the select! arm of rx.recv(): Lagged is skipped, a value becomes a token
\* event, Closed leaves the loop
SelectRecv ==
    /\ bridge = "select" /\ (rx.lagged \/ rx.queue # <<>> \/ rx.closed)
    /\ IF rx.lagged
       THEN rx' = [rx EXCEPT !.lagged = FALSE] /\ sse' = sse /\ bridge' = bridge
       ELSE IF rx.queue # <<>>
       THEN /\ rx' = [rx EXCEPT !.queue = Tail(@)]
            /\ sse' = sse \o TokenEvents(Head(rx.queue))
            /\ bridge' = bridge
       ELSE rx' = rx /\ sse' = sse /\ bridge' = "drain"
    /\ UNCHANGED <<offered, step_stream>>

\* the select! arm of stream.next(): a step event, an error event and the
\* end of the loop, or the end of the loop when the stream is over
SelectNext ==
    /\ bridge = "select"
    /\ IF step_stream = <<>>
       THEN bridge' = "drain" /\ sse' = sse /\ step_stream' = step_stream
       ELSE /\ step_stream' = Tail(step_stream)
            /\ IF Head(step_stream).status = "Ok"
               THEN sse' = Append(sse, StreamEvent("step", Head(step_stream).step))
                    /\ bridge' = bridge
               ELSE sse' = Append(sse, StreamEvent("error", 0)) /\ bridge' = "drain"
    /\ UNCHANGED <<offered, rx>>

\* one test of `while let Ok(status) = rx.try_recv()`: a value is taken, or
\* the loop ends on Empty, Closed or Lagged
Drain ==
    /\ bridge = "drain"
    /\ IF ~rx.lagged /\ rx.queue # <<>>
       THEN /\ rx' = [rx EXCEPT !.queue = Tail(@)]
            /\ sse' = sse \o DrainedEvents(Head(rx.queue))
            /\ bridge' = bridge
       ELSE rx' = [rx EXCEPT !.lagged = FALSE] /\ sse' = sse /\ bridge' = "done"
    /\ UNCHANGED <<offered, step_stream>>

\* the done event, the last statement of the stream
Done ==
    /\ bridge = "done"
    /\ sse' = Append(sse, StreamEvent("done", 0))
    /\ bridge' = "returned"
    /\ UNCHANGED <<offered, step_stream, rx>>

InitBridge ==
    /\ Construct({"code"}, {"openai"}, {1}, {None}, {FALSE})
    /\ StreamIdle /\ SerdeIdle /\ GateIdle /\ AggregateIdle
    /\ \E items \in StepItems : Bridging(items)

NextBridge ==
    \/ (\E kind \in Statuses : TokenSent(kind)) /\ UNCHANGED <<agentvars, streaming, serde, gate, aggregating>>
    \/ SendersDropped /\ UNCHANGED <<agentvars, streaming, serde, gate, aggregating>>
    \/ (\E ok \in BOOLEAN : Open(ok)) /\ UNCHANGED <<agentvars, streaming, serde, gate, aggregating>>
    \/ SelectRecv /\ UNCHANGED <<agentvars, streaming, serde, gate, aggregating>>
    \/ SelectNext /\ UNCHANGED <<agentvars, streaming, serde, gate, aggregating>>
    \/ Drain /\ UNCHANGED <<agentvars, streaming, serde, gate, aggregating>>
    \/ Done /\ UNCHANGED <<agentvars, streaming, serde, gate, aggregating>>

SpecBridge == InitBridge /\ [][NextBridge]_vars

\* ------------------------------------ tool calls of a streamed response
\* the argument fragments of a delta: strings (one of them empty), or a
\* value that is no string
Fragments == {"", "{", "}", "value"}
\* ToolCallStream: a delta with or without an id and a name
Deltas == [id : {None, Some("c1")}, name : {None, Some("search")}, arguments : Fragments]

\* the text current_arguments holds after the fragments fs were pushed: the
\* document {} when they spell it, a text that is no JSON otherwise
ArgumentsText(fs) ==
    IF fs = <<"{", "}">> THEN to_string(ValueObject({}))
    ELSE PlainText(IF fs = <<>> THEN "" ELSE "partial")

\* the ToolCall a delta with an id begins
BegunCall(d) ==
    [id |-> d.id, call_type |-> Some("function"),
     function |-> [name |-> IF IsSome(d.name) THEN Unwrap(d.name) ELSE "",
                   arguments |-> ValueString(PlainText(""))]]

\* the update of the current tool call by a delta: its name, and its
\* arguments when the delta holds a value that is no string
UpdatedCall(c, d) ==
    [c EXCEPT !.function.name = IF IsSome(d.name) THEN Unwrap(d.name) ELSE @,
              !.function.arguments = IF d.arguments = "value" THEN ValueObject({}) ELSE @]
\* current_arguments.push_str(new_str) for a string that is not empty
PushedArguments(fs, d) ==
    IF d.arguments \in {"", "value"} THEN fs ELSE Append(fs, d.arguments)

\* the call that is pushed: its arguments are the unwrapped parse of
\* current_arguments
ClosedCall(c, fs) == [c EXCEPT !.function.arguments = from_str(ArgumentsText(fs)).value]

\* one tool-call delta read by the accumulation task
AggregateDelta ==
    /\ aggregation = "loop" /\ taken < Len(deltas)
    /\ LET d == deltas[taken + 1]
           begins == IsSome(d.id)
           closes == begins /\ IsSome(current_tool_call)
       IN IF closes /\ ~from_str(ArgumentsText(current_arguments)).ok
          THEN /\ aggregation' = "panicked"
               /\ UNCHANGED <<taken, tool_calls, current_tool_call, current_arguments>>
          ELSE LET calls == IF closes
                            THEN Append(tool_calls,
                                        ClosedCall(Unwrap(current_tool_call), current_arguments))
                            ELSE tool_calls
                   fs == IF closes THEN <<>> ELSE current_arguments
                   cur == IF begins THEN Some(BegunCall(d)) ELSE current_tool_call
               IN /\ tool_calls' = calls
                  /\ current_tool_call' = IF IsSome(cur) THEN Some(UpdatedCall(Unwrap(cur), d))
                                          ELSE cur
                  /\ current_arguments' = IF IsSome(cur) THEN PushedArguments(fs, d) ELSE fs
                  /\ taken' = taken + 1
                  /\ aggregation' = aggregation
    /\ UNCHANGED deltas

\* the channel is closed: the last tool call is pushed and the task returns
AggregateEnd ==
    /\ aggregation = "loop" /\ taken = Len(deltas)
    /\ IF IsNone(current_tool_call)
       THEN aggregation' = "done" /\ UNCHANGED <<tool_calls, current_tool_call>>
       ELSE IF from_str(ArgumentsText(current_arguments)).ok
       THEN /\ aggregation' = "done"
            /\ tool_calls' = Append(tool_calls,
                                    ClosedCall(Unwrap(current_tool_call), current_arguments))
            /\ current_tool_call' = None
       ELSE aggregation' = "panicked" /\ UNCHANGED <<tool_calls, current_tool_call>>
    /\ UNCHANGED <<deltas, taken, current_arguments>>

InitAggregate ==
    /\ Construct({"code"}, {"openai"}, {1}, {None}, {FALSE})
    /\ StreamIdle /\ SerdeIdle /\ GateIdle /\ BridgeIdle
    /\ \E ds \in SeqsUpTo(Deltas, MaxDeltas) : Aggregating(ds)

NextAggregate ==
    \/ AggregateDelta /\ UNCHANGED <<agentvars, streaming, serde, gate, bridging>>
    \/ AggregateEnd /\ UNCHANGED <<agentvars, streaming, serde, gate, bridging>>

SpecAggregate == InitAggregate /\ [][NextAggregate]_vars

\* ------------------------------------------------- reading the log
\* position of the last TaskStep of a log, 0 when it has none
LastTaskAt(l) ==
    LET S == {i \in 1..Len(l) : IsTask(l[i])}
    IN IF S = {} THEN 0 ELSE CHOOSE i \in S : \A j \in S : j <= i
\* the entries the current (latest) run appended after its TaskStep
CurrentTask(l) == SubSeq(l, LastTaskAt(l) + 1, Len(l))
ActionSteps(l) == SelectSeq(l, IsAction)
TaskSteps(l) == SelectSeq(l, IsTask)
PlanningSteps(l) == SelectSeq(l, IsPlanning)
\* whether some ActionStep of the entries carries a final answer
Answered(l) == \E i \in 1..Len(l) : IsAction(l[i]) /\ IsSome(l[i].final_answer)
RunReturned == pc = "idle" /\ nruns > 0

\* ------------------------------------------------------------ claims
\* C1 (as stated): every run that returns Ok either appended an ActionStep
\* holding the final answer x and returned x, or returned the recovery result
\* after exactly max_steps ActionSteps were appended during this run.
C1_AnswerOrMaxSteps ==
    (RunReturned /\ ret.status = "Ok") =>
        LET acts == ActionSteps(CurrentTask(logs))
        IN \/ /\ acts # <<>>
              /\ IsSome(acts[Len(acts)].final_answer)
              /\ ret.val = Unwrap(acts[Len(acts)].final_answer)
           \/ /\ ~Answered(acts)
              /\ ret.val.src = "recovery"
              /\ Len(acts) = max_steps

\* C2: within one run, of run or of stream_run, once an ActionStep carrying
\* a final answer is in the log the only thing that follows is the end of the
\* run (run returns that answer, the stream ends): no further ActionStep is
\* appended, no further model call is made, the recovery prompt is not
\* invoked, nothing more is yielded.
C2_AnswerEndsLoop ==
    [][(pc # "idle" /\ Answered(CurrentTask(logs))) =>
          /\ pc' = "idle"
          /\ logs' = logs
          /\ ncalls' = ncalls
          /\ yielded' = yielded
          /\ ret' = IF driver = "stream" THEN StreamEnd ELSE Ok(Unwrap(final_answer))]_vars
C2_Witness ==
    /\ RunReturned /\ driver = "stream" /\ ret = StreamEnd
    /\ Answered(CurrentTask(logs))
    /\ Len(ActionSteps(CurrentTask(logs))) = 2
    /\ Len(yielded) = 2
    /\ max_steps = MaxSteps

\* C3 (as stated): after any run, also a second run with reset = false, the
\* first entry of the log is the SystemPromptStep and the log holds exactly
\* one TaskStep.
C3_OneTaskStep ==
    RunReturned => logs[1] = SystemPromptStep /\ Len(TaskSteps(logs)) = 1
\* C3 (amended): the first entry of a non-empty log is the SystemPromptStep,
\* and every run adds exactly one TaskStep: the log holds one after a run that
\* cleared it, and one more than before after a run that kept it; no other
\* step of the program adds or removes a TaskStep.
C3_OneTaskStepPerRun ==
    [][/\ logs' # <<>> => logs'[1] = SystemPromptStep
       /\ Len(TaskSteps(logs')) =
             IF nruns' = nruns THEN Len(TaskSteps(logs))
             ELSE IF reset' THEN 1 ELSE Len(TaskSteps(logs)) + 1]_vars
C3_Witness ==
    RunReturned /\ ~reset /\ nruns = 2 /\ Len(TaskSteps(logs)) = 2

\* C4 (as stated): any two consecutive ActionSteps of the log, also across
\* the TaskStep of a later run with reset = false, have consecutive
\* step_index values, and the first ActionStep of each task has index 1.
C4_ConsecutiveAcrossRuns ==
    LET acts == ActionSteps(logs)
    IN /\ \A i \in 1..Len(acts) - 1 : acts[i + 1].step = acts[i].step + 1
       /\ \A i \in 1..Len(logs) - 1 :
             (IsTask(logs[i]) /\ IsAction(logs[i + 1])) => logs[i + 1].step = 1
\* C4 (amended): within one task the ActionSteps have the step_index values
\* 1, 2, 3, ... in order; the numbering starts again at 1 after every TaskStep.
C4_ConsecutiveWithinTask ==
    \A t \in 1..Len(logs) :
        IsTask(logs[t]) =>
            \A i \in t + 1..Len(logs) :
                (IsAction(logs[i]) /\ \A j \in t + 1..i : ~IsTask(logs[j])) =>
                    logs[i].step = Len(ActionSteps(SubSeq(logs, t + 1, i)))
C4_Witness ==
    /\ nruns = 2 /\ ~reset
    /\ Len(ActionSteps(CurrentTask(logs))) = 2
    /\ Len(ActionSteps(logs)) > 2

\* C5: the step that starts a run leaves the log as exactly
\* [SystemPromptStep, TaskStep(task)] when reset is true or the log was empty;
\* otherwise it replaces entry 0 by the system prompt, keeps every entry from
\* index 1 on, in order, and appends TaskStep(task); step_number is 1 then,
\* and still 1 when the first step starts.
C5_RunFrame ==
    [][/\ nruns' # nruns =>
             /\ step_number' = 1
             /\ IF reset' \/ logs = <<>>
                THEN logs' = <<SystemPromptStep, TaskStep(task')>>
                ELSE /\ Len(logs') = Len(logs) + 1
                     /\ logs'[1] = SystemPromptStep
                     /\ \A i \in 2..Len(logs) : logs'[i] = logs[i]
                     /\ logs'[Len(logs')] = TaskStep(task')
       /\ (step_log = NoDraft /\ step_log' # NoDraft /\ ActionSteps(CurrentTask(logs)) = <<>>) =>
             step_log'.step = 1]_vars
C5_Witness ==
    /\ nruns = 2 /\ ~reset /\ pc = "model"
    /\ Len(logs) = MaxKept + 1
    /\ step_log.step = 1

\* C7 (as stated): for every planning_interval k >= 1, k = 1 included, the
\* first ActionStep of each task is preceded, within the task, by exactly one
\* PlanningStep.
C7_OnePlanningStep ==
    IsSome(planning_interval) =>
        \A t \in 1..Len(logs) :
            IsTask(logs[t]) =>
                \A i \in t + 1..Len(logs) :
                    (IsAction(logs[i]) /\ logs[i].step = 1 /\ \A j \in t + 1..i : ~IsTask(logs[j])) =>
                        Len(PlanningSteps(SubSeq(logs, t + 1, i))) = 1

\* C10: when the model call of an action step fails, run returns that
\* error at once: the failed step is not appended to the log, no later step
\* is started, the recovery prompt is not invoked.
C10_ModelErrorEndsRun ==
    [][(driver = "run" /\ pc = "model" /\ model_err') =>
          /\ pc' = "idle"
          /\ ret' = Err
          /\ logs' = logs
          /\ step_number' = step_number
          /\ ncalls' = ncalls + 1]_vars
C10_Witness ==
    /\ RunReturned /\ driver = "run" /\ ret = Err /\ model_err
    /\ step_number = 2 /\ max_steps = MaxSteps
    /\ Len(ActionSteps(CurrentTask(logs))) = 1

\* the tool calls and the observations stored in an ActionStep
CallsOf(st) == IF IsSome(st.tool_call) THEN Unwrap(st.tool_call) ELSE <<>>
ObservationsOf(st) == IF IsSome(st.observations) THEN Unwrap(st.observations) ELSE <<>>
NamesFinalAnswer(calls) == \E k \in 1..Len(calls) : calls[k].name = "final_answer"

\* C6 (as stated): a function-calling step whose response holds N tool calls,
\* none of them final_answer, stores exactly N observations, observation i
\* being the result or the error of call i, for every completion order and
\* every mix of tool names and managed sub-agent names.
C6_ObservationPerCall ==
    variant = "function_calling" =>
        \A i \in 1..Len(logs) :
            (IsAction(logs[i]) /\ CallsOf(logs[i]) # <<>> /\ ~NamesFinalAnswer(CallsOf(logs[i]))) =>
                /\ Len(ObservationsOf(logs[i])) = Len(CallsOf(logs[i]))
                /\ \A k \in 1..Len(ObservationsOf(logs[i])) : ObservationsOf(logs[i])[k].of = k

\* C8 (as stated): every tool call stored in an ActionStep has an id that is
\* present and not empty, on every provider and for structured, synthesised
\* and python_interpreter calls alike.
C8_ToolCallIds ==
    \A i \in 1..Len(logs) :
        IsAction(logs[i]) =>
            \A k \in 1..Len(CallsOf(logs[i])) :
                IsSome(CallsOf(logs[i])[k].id) /\ CallsOf(logs[i])[k].id # Some("")

\* C9 (as stated): the observations stored in an ActionStep, joined, are never
\* longer than 30,000 characters plus the truncation notice, for every agent
\* variant.
C9_ObservationsBounded ==
    \A i \in 1..Len(logs) :
        IsAction(logs[i]) => JoinedLen(ObservationsOf(logs[i])) <= ObsLimit + NoticeLen

\* the code agent's step has just returned on a response of the model
CodeStepReturns == pc = "model" /\ variant = "code" /\ ~model_err' /\ pc' # "model"

\* C11: when the response of the model to a code agent's step holds no
\* fenced code block, the step does not fail the run: an ActionStep is
\* appended whose error is the parsing error, with no final answer and no
\* tool call, and the loop goes on for as long as steps remain.
C11_ParseErrorContinues ==
    [][(CodeStepReturns /\ response'.body # "code") =>
          /\ Len(logs') = Len(logs) + 1
          /\ SubSeq(logs', 1, Len(logs)) = logs
          /\ IsAction(logs'[Len(logs')])
          /\ logs'[Len(logs')].error = Some("Parsing")
          /\ IsNone(logs'[Len(logs')].final_answer)
          /\ IsNone(logs'[Len(logs')].tool_call)
          /\ IsNone(logs'[Len(logs')].observations)
          /\ pc' = "loop" /\ ret' = ret /\ final_answer' = None
          /\ step_number' = step_number + 1
          /\ LoopGuard(final_answer', step_number', max_steps) <=> step_number' < max_steps]_vars
C11_Witness ==
    /\ variant = "code" /\ pc = "model" /\ step_number = 2
    /\ Len(ActionSteps(CurrentTask(logs))) = 1
    /\ ActionSteps(CurrentTask(logs))[1].error = Some("Parsing")
    /\ IsNone(ActionSteps(CurrentTask(logs))[1].tool_call)

\* C12: in a code agent's step the sandbox's FinalAnswer(value) sets the
\* step's final_answer to value and ends the loop, so that run returns value;
\* any other interpreter error is stored in the step's error with no final
\* answer and the loop goes on; a FinalAnswer is never stored as an error.
C12_SandboxOutcome ==
    [][(CodeStepReturns /\ response'.body = "code") =>
          /\ Len(logs') = Len(logs) + 1
          /\ pc' = "loop"
          /\ final_answer' = logs'[Len(logs')].final_answer
          /\ interp'.kind = "final" =>
                /\ final_answer' = Some(Text("sandbox_final", 1, interp'.result))
                /\ IsNone(logs'[Len(logs')].error)
                /\ ~LoopGuard(final_answer', step_number', max_steps)
                /\ ~RecoverGuard(final_answer', step_number', max_steps)
          /\ interp'.kind = "error" =>
                /\ logs'[Len(logs')].error = Some("Execution")
                /\ final_answer' = None
                /\ LoopGuard(final_answer', step_number', max_steps) <=> step_number' < max_steps]_vars
\* the run of a code agent returns the value of the FinalAnswer signal
C12_Witness ==
    /\ RunReturned /\ variant = "code" /\ driver = "run" /\ interp.kind = "final"
    /\ ret = Ok(Text("sandbox_final", 1, interp.result))
    /\ Len(ActionSteps(CurrentTask(logs))) = 2
    /\ ActionSteps(CurrentTask(logs))[1].error = Some("Execution")

\* the function-calling step is dispatching the calls of a response
FcDispatching == variant = "function_calling" /\ pc \in {"managed", "final_tool", "join_all"}

\* C13 (as stated): in the function-calling agent a tool call that fails
\* never ends the run: the step goes on to its end, the ActionStep is appended
\* and the loop continues, for every dispatched call, a failing call named
\* final_answer and a failing run of a managed sub-agent included.
C13_ToolFailureContinues ==
    [][FcDispatching =>
          /\ ret' = ret
          /\ \/ pc' \in {"managed", "final_tool", "join_all"} /\ logs' = logs
             \/ pc' = "loop" /\ Len(logs') = Len(logs) + 1 /\ IsAction(logs'[Len(logs')])]_vars

\* C14 (as stated): a run that exhausts max_steps without a final answer
\* never returns an error: run returns Ok with a string, the recovery
\* response or the max-steps text, also when the recovery call itself fails.
C14_ExhaustionIsOk ==
    [][(driver = "run" /\ pc = "recover") =>
          /\ pc' = "idle"
          /\ ret'.status = "Ok"
          /\ ret'.val.src = "recovery" \/ ret'.val = MaxStepsText]_vars

\* the function-calling step has just returned on a response of the model
FcStepOnResponse == pc = "model" /\ variant = "function_calling" /\ ~model_err' /\ pc' # "model"

\* C15 (as stated): the function-calling agent does not take a response with
\* no tool calls and an empty text for the final answer: the step is logged
\* without a final answer and the loop goes on to the next step (and, steps
\* exhausted, to the one recovery call whose text run returns).
C15_EmptyResponseNotFinal ==
    [][(FcStepOnResponse /\ response'.body = "empty" /\ response'.calls = 0) =>
          /\ pc' = "loop"
          /\ final_answer' = None
          /\ IsNone(logs'[Len(logs')].final_answer)]_vars

\* C16 (as stated): in the function-calling and MCP agents a step whose batch
\* holds a call named final_answer ends with the step's final_answer set to
\* the answer and its observations exactly [answer], and the loop ends,
\* wherever the call stands in the batch and whatever tools are registered.
C16_FinalAnswerCall ==
    [][(variant \in {"function_calling", "mcp"} /\ NamesFinalAnswer(tools) /\ tools' = <<>>) =>
          /\ pc' = "loop"
          /\ IsSome(final_answer')
          /\ logs' = Append(logs, logs'[Len(logs')])
          /\ logs'[Len(logs')].final_answer = final_answer'
          /\ logs'[Len(logs')].observations = Some(<<Unwrap(final_answer')>>)
          /\ ~LoopGuard(final_answer', step_number', max_steps)
          /\ ~RecoverGuard(final_answer', step_number', max_steps)]_vars

\* whether every call of a batch names the managed sub-agent
AllManaged(calls) == \A k \in 1..Len(calls) : IsManagedName(calls[k].name)

\* C17 (as stated): when a function-calling step's response holds several
\* calls to the same managed sub-agent, the sub-agent is run once per call, in
\* the order of the calls, and observation i is the string returned by the
\* run for call i.
C17_ManagedRunPerCall ==
    variant = "function_calling" =>
        \A i \in 1..Len(logs) :
            (IsAction(logs[i]) /\ Len(CallsOf(logs[i])) >= 2 /\ AllManaged(CallsOf(logs[i]))) =>
                /\ Len(ObservationsOf(logs[i])) = Len(CallsOf(logs[i]))
                /\ \A k \in 1..Len(ObservationsOf(logs[i])) :
                      ObservationsOf(logs[i])[k].src = "agent" /\ ObservationsOf(logs[i])[k].of = k

\* position of the last message before position m that is not a ToolResponse,
\* 0 when there is none
AnsweredAt(M, m) ==
    LET S == {a \in 1..m - 1 : M[a].role # "ToolResponse"}
    IN IF S = {} THEN 0 ELSE CHOOSE a \in S : \A b \in S : b <= a

\* every ToolResponse of a message sequence answers, by its id, a tool call
\* attached to the assistant's message that stands right before it
ToolResponsesAnswer(M) ==
    \A m \in 1..Len(M) :
        M[m].role = "ToolResponse" =>
            /\ AnsweredAt(M, m) # 0
            /\ M[AnsweredAt(M, m)].role = "Assistant"
            /\ IsSome(M[AnsweredAt(M, m)].tool_calls)
            /\ IsSome(M[m].tool_call_id)
            /\ \E k \in 1..Len(Unwrap(M[AnsweredAt(M, m)].tool_calls)) :
                  Unwrap(M[AnsweredAt(M, m)].tool_calls)[k].id = M[m].tool_call_id

\* C18 (as stated): in every message sequence write_inner_memory_from_logs
\* produces from a reachable log, in full mode and in summary mode, each
\* ToolResponse carries the id of a tool call attached to the immediately
\* preceding Assistant message.
C18_ToolResponseIds ==
    ~MemoryPanics(logs) =>
        \A summary_mode \in BOOLEAN : ToolResponsesAnswer(WriteInnerMemory(logs, summary_mode))

\* the message sequence keeps every entry of the log, in the order of the log
KeepsEveryEntry(M, l) ==
    /\ \A i \in 1..Len(l) : \E m \in 1..Len(M) : M[m].entry = i
    /\ \A m, n \in 1..Len(M) : m < n => M[m].entry <= M[n].entry

\* C19 (as stated): write_inner_memory_from_logs never drops a step and never
\* reorders steps: in either mode every log entry contributes at least one
\* message, and the messages of entry i precede those of entry j for i < j.
C19_NoStepDropped ==
    ~MemoryPanics(logs) =>
        \A summary_mode \in BOOLEAN : KeepsEveryEntry(WriteInnerMemory(logs, summary_mode), logs)

\* the steps of the ActionSteps a stream has yielded so far
YieldedActions ==
    LET ok == SelectSeq(yielded, LAMBDA y : y.status = "Ok" /\ IsAction(y.step))
    IN [k \in 1..Len(ok) |-> ok[k].step]

\* C20 (as stated): when stream_run reaches max_steps without a final answer
\* it yields exactly one synthetic ActionStep whose final_answer holds the
\* recovery response, as the last item of the stream, after all real
\* ActionSteps of the run, and without appending it to the log.
C20_SyntheticTerminalStep ==
    [][(driver = "stream" /\ pc = "recover") =>
          /\ pc' = "idle" /\ ret' = StreamEnd
          /\ logs' = logs
          /\ YieldedActions = ActionSteps(CurrentTask(logs))
          /\ Len(yielded') = Len(yielded) + 1
          /\ yielded'[Len(yielded')].status = "Ok"
          /\ IsAction(yielded'[Len(yielded')].step)
          /\ IsSome(yielded'[Len(yielded')].step.final_answer)
          /\ Unwrap(yielded'[Len(yielded')].step.final_answer).src = "recovery"]_vars

\* the ActionSteps a stream has yielded that came from the loop, the
\* synthetic step of the recovery left out
IsReal(st) == ~(IsSome(st.final_answer) /\ Unwrap(st.final_answer).src = "recovery")
RealYielded == SelectSeq(YieldedActions, IsReal)

\* C21: stream_run yields every ActionStep the loop appends to the log, each
\* once, in the order of the log and only after it was appended: when a real
\* ActionStep is yielded it is the last entry of the log and step_number has
\* been incremented past it.
C21_YieldsAppendedSteps ==
    [][driver' = "stream" =>
          /\ RealYielded' = ActionSteps(CurrentTask(logs'))
          /\ (driver = "stream" /\ Len(RealYielded') > Len(RealYielded)) =>
                /\ Len(yielded') = Len(yielded) + 1
                /\ yielded'[Len(yielded')] = YieldOk(logs'[Len(logs')])
                /\ Len(logs') = Len(logs) + 1
                /\ step_number' = logs'[Len(logs')].step + 1
                /\ step_number' = step_number + 1]_vars
\* a stream that has yielded two steps of the loop, both in the log
C21_Witness ==
    /\ driver = "stream" /\ Len(RealYielded) = 2 /\ step_number = 3
    /\ RealYielded = ActionSteps(CurrentTask(logs))
    /\ yielded[Len(yielded)] = YieldOk(logs[Len(logs)])

\* what the caller of a driver gets in the end: the string run returns, the
\* final_answer of the last item stream_run yielded
OutcomeOf(run) ==
    IF run.driver = "run" THEN Some(run.ret.val)
    ELSE IF run.yielded = <<>> THEN None
    ELSE run.yielded[Len(run.yielded)].step.final_answer

\* two runs of the same task on the same agent, one by each driver, both
\* ended without a failure and handed the same results by the planner, the
\* steps and the recovery
SameRunTwice ==
    /\ pc = "idle" /\ nruns = 2 /\ prev.driver \notin {"none", driver}
    /\ Finished(Snapshot) /\ Finished(prev)
    /\ inputs = prev.inputs

C23_ResponseTextIsConcatenation ==
    (IsSome(stream_response) /\ Unwrap(stream_response).status = "Ok") =>
        Unwrap(stream_response).response_text = ContentOf(received)
\* a call that returned three deltas in order while its subscriber lagged
C23_Witness ==
    /\ IsSome(stream_response) /\ Unwrap(stream_response).status = "Ok"
    /\ Unwrap(stream_response).response_text = <<"a", "b", "a">>
    /\ tx.lagged

\* the round trip of the tool call in hand is over
RoundTripped == IsSome(original) /\ IsSome(wire) /\ IsSome(restored)

\* C24: a tool call whose arguments is a JSON object comes back from one
\* serialize-then-deserialize cycle with arguments equal to the same object,
\* not a string; on the wire the arguments of every tool call is a JSON string.
C24_ObjectArgumentsRoundTrip ==
    /\ IsSome(wire) => Unwrap(wire).function.arguments.kind = "string"
    /\ (RoundTripped /\ Unwrap(original).function.arguments.kind = "object")
           => /\ Unwrap(restored).function.arguments = Unwrap(original).function.arguments
              /\ Unwrap(restored).function.arguments.kind = "object"
C24_Witness ==
    /\ RoundTripped
    /\ Unwrap(original).function.arguments = ValueObject({<<"q", 1>>})
    /\ Unwrap(wire).function.arguments = ValueString(JsonText(ValueObject({<<"q", 1>>}), TRUE))
    /\ Unwrap(restored).function.arguments = ValueObject({<<"q", 1>>})

\* C25 (as stated): every tool call comes back from serialization and
\* deserialization equal to itself, whatever its id, call_type and arguments.
C25_ToolCallRoundTrip == RoundTripped => Unwrap(restored) = Unwrap(original)

\* the request in hand asks for the path p
Asks(p) == IsSome(request) /\ Unwrap(request).path = p
\* the request in hand carries "Bearer <LUMO_API_KEY>"
Authorized == /\ IsSome(request) /\ IsSome(environ.LUMO_API_KEY)
              /\ Unwrap(request).authorization = Some(Bearer(Unwrap(environ.LUMO_API_KEY)))
\* the middleware answered the request itself, with the status st
Refused(st) == IsSome(reply) /\ ~called /\ Unwrap(reply).status = st

\* the part of C26 that holds: with ENABLE_AUTH "true" a request to a path
\* other than /health_check reaches the service only with the header
\* "Bearer <LUMO_API_KEY>"; a request the middleware answers never reached
\* the service; /health_check and every request without ENABLE_AUTH "true"
\* reach the service, and GET /health_check is answered 200 with no body.
C26_Gate ==
    /\ (called /\ environ.ENABLE_AUTH = Some("true") /\ ~Asks("/health_check")) => Authorized
    /\ (IsSome(reply) /\ (Asks("/health_check") \/ environ.ENABLE_AUTH # Some("true"))) => called
    /\ (IsSome(reply) /\ Asks("/health_check") /\ Unwrap(request).method = "GET")
           => Unwrap(reply) = HttpResponse(200, "")

\* C26 (as stated): with ENABLE_AUTH "true", a request to a path other than
\* /health_check without the header "Bearer <LUMO_API_KEY>" is answered 401,
\* or 500 when LUMO_API_KEY is not configured, and the service is not called.
C26_ApiKeyGate ==
    /\ C26_Gate
    /\ (IsSome(reply) /\ environ.ENABLE_AUTH = Some("true") /\ ~Asks("/health_check")
            /\ ~Authorized)
           => IF IsNone(environ.LUMO_API_KEY) THEN Refused(500) ELSE Refused(401)

\* C27 (as stated): on every log the step loop of a function-calling or MCP
\* agent produced, each ActionStep with tool calls and observations has at
\* least as many observations as calls, so write_inner_memory_from_logs
\* reads observations[i] within bounds and completes on the next step.
C27_MemoryAssembles ==
    variant \in {"function_calling", "mcp"} =>
        \A i \in 1..Len(logs) : ~ObservationMissing(logs[i])

\* call k of the step st was run by the managed sub-agent / by the tool group
RanByAgent(st, k) ==
    \E j \in 1..Len(ObservationsOf(st)) :
        ObservationsOf(st)[j].src = "agent" /\ ObservationsOf(st)[j].of = k
RanByTools(st, k) ==
    \E j \in 1..Len(ObservationsOf(st)) :
        ObservationsOf(st)[j].src \in {"tool", "tool_err", "final_tool"} /\ ObservationsOf(st)[j].of = k

\* C28 (as stated): in a step of the function-calling agent each call of the
\* batch is routed by its own name, whichever call comes first: a call naming
\* a managed sub-agent (with a string task) is run by that sub-agent and
\* never by the tool group, a call naming a tool is run by the tool group and
\* never by the sub-agent.
C28_RoutedByOwnName ==
    variant = "function_calling" =>
        \A i \in 1..Len(logs) :
            (IsAction(logs[i]) /\ IsSome(logs[i].observations) /\ ~NamesFinalAnswer(CallsOf(logs[i]))) =>
                \A k \in 1..Len(CallsOf(logs[i])) :
                    IF IsManagedName(CallsOf(logs[i])[k].name)
                    THEN /\ ~RanByTools(logs[i], k)
                         /\ CallsOf(logs[i])[k].task = "string" => RanByAgent(logs[i], k)
                    ELSE RanByTools(logs[i], k) /\ ~RanByAgent(logs[i], k)

\* a function-calling or MCP step has just read a response of the model
ToolStepOnResponse ==
    pc = "model" /\ variant \in {"function_calling", "mcp"} /\ ~model_err' /\ pc' # "model"
\* the calls that step recorded in its ActionStep, the calls it dispatches
RecordedCalls ==
    IF pc' \in {"managed", "final_tool", "join_all", "mcp"} THEN CallsOf(step_log')
    ELSE CallsOf(logs'[Len(logs')])
Synthesised(calls) == \E k \in 1..Len(calls) : calls[k].id = Some("call_nanoid")

\* C29 (as stated): when the response carries structured tool calls, the step
\* of the function-calling and MCP agents records and dispatches exactly
\* those calls; the single call synthesised from an action block of the text
\* is used only when the response carries no structured tool call.
C29_StructuredCallsFirst ==
    [][(ToolStepOnResponse /\ response'.calls > 0) =>
          /\ Len(RecordedCalls) = response'.calls
          /\ ~Synthesised(RecordedCalls)
          /\ (pc' \in {"managed", "final_tool", "join_all", "mcp"} => tools' = RecordedCalls)]_vars

\* the observations of the step st that MCP clients returned for its call k
ClientAnswers(st, k) ==
    {j \in 1..Len(ObservationsOf(st)) :
        ObservationsOf(st)[j].src \in {"mcp", "mcp_err"} /\ ObservationsOf(st)[j].of = k}

\* C30 (as stated): in a step of the MCP agent every call that names a tool
\* (not final_answer, not a managed sub-agent) is sent to exactly one client
\* and contributes exactly one observation, also when two clients list the
\* tool and when no client lists it.
C30_OneClientPerCall ==
    variant = "mcp" =>
        \A i \in 1..Len(logs) :
            (IsAction(logs[i]) /\ IsSome(logs[i].observations) /\ ~NamesFinalAnswer(CallsOf(logs[i]))) =>
                \A k \in 1..Len(CallsOf(logs[i])) :
                    ~IsManagedName(CallsOf(logs[i])[k].name) =>
                        Cardinality(ClientAnswers(logs[i], k)) = 1

\* the planner of a stream_run has just pushed its PlanningStep
PlannerPushes == pc = "plan_plan" /\ driver = "stream" /\ Len(logs') = Len(logs) + 1

PlannerFails == pc \in {"plan_facts", "plan_plan"} /\ model_err'

DrainedOk ==
    /\ driver = "stream" /\ nruns > 0 /\ pc = "idle" /\ ret = StreamEnd
    /\ \A i \in 1..Len(yielded) : yielded[i].status = "Ok"
\* item i of the stream is an ActionStep with final_answer set
FinalItem(i) == IsAction(yielded[i].step) /\ IsSome(yielded[i].step.final_answer)

\* C33: a step stream drained to its end without an Err item holds exactly
\* one ActionStep with final_answer set, and that item is its last, for
\* every max_steps (0 and 1 included) and every sequence of model results.
C33_OneFinalItemLast ==
    DrainedOk =>
        /\ yielded # <<>>
        /\ FinalItem(Len(yielded))
        /\ \A i \in 1..Len(yielded) - 1 : ~FinalItem(i)
\* a drained stream of an agent with max_steps 0: the synthetic step alone
C33_Witness ==
    /\ DrainedOk /\ max_steps = 0
    /\ Len(yielded) = 1 /\ FinalItem(1)
    /\ Unwrap(yielded[1].step.final_answer).src = "recovery"
\* a drained stream whose last step of the loop gave the answer
C33_WitnessLoop ==
    /\ DrainedOk /\ Len(yielded) >= 2 /\ FinalItem(Len(yielded))
    /\ yielded[Len(yielded)].step = logs[Len(logs)]

\* the stream of the run in hand has yielded an Err
ErrYielded == driver = "stream" /\ \E i \in 1..Len(yielded) : yielded[i].status = "Err"
\* this step of the run in hand yields an Err
YieldsErr ==
    /\ driver = "stream" /\ nruns' = nruns /\ Len(yielded') = Len(yielded) + 1
    /\ yielded'[Len(yielded')].status = "Err"

\* C34: an Err item is the last item of the step stream: the step that
\* yields it ends the stream, and afterwards the run yields nothing, calls
\* the model no more and appends nothing to the log.
C34_ErrIsLast ==
    [][/\ YieldsErr => (pc' = "idle" /\ ret' = StreamEnd /\ logs' = logs)
       /\ (ErrYielded /\ nruns' = nruns) =>
              (yielded' = yielded /\ ncalls' = ncalls /\ logs' = logs)]_vars
\* a stream that ended on the error of its second step
C34_Witness ==
    /\ ErrYielded /\ pc = "idle" /\ ret = StreamEnd
    /\ Len(yielded) = 2 /\ yielded[1].status = "Ok" /\ yielded[2].status = "Err"
    /\ IsAction(yielded[1].step) /\ step_number = 2

\* the events of a given type in the SSE response
EventsOf(type) == SelectSeq(sse, LAMBDA e : e.type = type)
\* the steps the step stream yields when it is drained
OfferedSteps == SelectSeq(offered, LAMBDA it : it.status = "Ok")

\* C35 (as stated): every SSE response ends with exactly one done event and
\* nothing follows it, also when stream_run returns an error and when the
\* step stream yields an error.
C35_DoneIsTerminal ==
    bridge = "returned" =>
        /\ sse # <<>> /\ sse[Len(sse)].type = "done"
        /\ Len(EventsOf("done")) = 1

\* C36 (as stated): the SSE response loses no step: the steps of the step
\* stream are all emitted as step events, in the order of the stream, before
\* the done event, whatever the token channel reports meanwhile.
C36_NoStepLost ==
    (bridge = "returned" /\ sse[Len(sse)].type = "done") =>
        /\ Len(EventsOf("step")) = Len(OfferedSteps)
        /\ \A k \in 1..Len(OfferedSteps) : EventsOf("step")[k].of = OfferedSteps[k].step

\* C37: once the provider stream is closed process_stream_with_separate_tasks
\* returns: for every interleaving of the two tasks, with more chunks than
\* the channels hold, with and without a token receiver, both tasks end and
\* the join returns.
C37_StreamCallReturns ==
    (~stream.open) ~> (Ended(broadcast_task) /\ Ended(accumulation_task) /\ IsSome(stream_response))
\* a call that returned after more chunks than a channel holds, nobody listening
C37_Witness ==
    /\ ~stream.open /\ IsSome(stream_response) /\ Unwrap(stream_response).status = "Ok"
    /\ Len(received) > ChanCap /\ tx.receivers = 0
    /\ broadcast_task.pc = "done" /\ accumulation_task.pc = "done"

\* the positions of the deltas that carry an id, in order
RECURSIVE BeginsFrom(_)
BeginsFrom(i) ==
    IF i > Len(deltas) THEN <<>>
    ELSE (IF IsSome(deltas[i].id) THEN <<i>> ELSE <<>>) \o BeginsFrom(i + 1)
\* the argument fragments of the call begun at i: the string fragments from
\* there up to the next delta that carries an id
RECURSIVE FragmentsOf(_, _)
FragmentsOf(i, first) ==
    IF i > Len(deltas) \/ (~first /\ IsSome(deltas[i].id)) THEN <<>>
    ELSE (IF deltas[i].arguments \in {"", "value"} THEN <<>> ELSE <<deltas[i].arguments>>)
         \o FragmentsOf(i + 1, FALSE)

\* C38 (as stated): the aggregation of a streamed response completes for
\* every delta sequence, and every call begun by a delta with an id appears
\* once in tool_calls, in the order the calls began, its arguments the JSON
\* parse of the concatenation of its argument fragments.
C38_ToolCallsAggregated ==
    /\ aggregation # "panicked"
    /\ aggregation = "done" =>
           /\ Len(tool_calls) = Len(BeginsFrom(1))
           /\ \A k \in 1..Len(tool_calls) :
                  /\ tool_calls[k].id = deltas[BeginsFrom(1)[k]].id
                  /\ tool_calls[k].function.arguments =
                         from_str(ArgumentsText(FragmentsOf(BeginsFrom(1)[k], TRUE))).value

\* the events of the content deltas ts as they are to be sent: the first as
\* FirstContent, the others as Content, in the order of ts
ExpectedStatuses(ts) ==
    [i \in 1..Len(ts) |-> [status |-> IF i = 1 THEN "FirstContent" ELSE "Content",
                           content |-> ts[i]]]
\* C39: on the token channel of one streamed call the events sent are at
\* every moment the first content deltas received from the provider, in
\* provider order, the first of them as the one FirstContent event and every
\* later one as Content; when the call returns a response every content delta
\* has been sent, so a response with a content delta has exactly one
\* FirstContent, carrying the first content delta, before every Content.
C39_FirstContentThenContent ==
    LET told == broadcast_task.told
        due == ExpectedStatuses(ContentOf(received))
    IN /\ Len(told) <= Len(due)
       /\ told = SubSeq(due, 1, Len(told))
       /\ (IsSome(stream_response) /\ Unwrap(stream_response).status = "Ok") => told = due
\* a call that returned a response after a chunk without content and two
\* content deltas, sent as one FirstContent and one Content event
C39_Witness ==
    /\ IsSome(stream_response) /\ Unwrap(stream_response).status = "Ok"
    /\ Len(received) >= 3 /\ received[1].kind = "other"
    /\ Len(broadcast_task.told) >= 2
    /\ broadcast_task.told[1] = [status |-> "FirstContent", content |-> received[2].content]
    /\ broadcast_task.told[2] = [status |-> "Content", content |-> received[3].content]

====
